---- MODULE Spec2Model ----
(***************************************************************************)
(* A model of the api-gateway Proxy (src/src/proxy.ts): schema acquisition, *)
(* method synthesis, override table, route naming and default-handler      *)
(* dispatch; of ProxyApi and ApiGateway (src/src/api-gateway.ts), which     *)
(* aggregate proxies and hand their methods to the serving strategy; and    *)
(* of the WebSocketProxy, which routes upgrade requests to backends.        *)
(*                                                                          *)
(* Strings are sequences of one-character tokens, so that the string        *)
(* operations of the code (concatenation, replace, truthiness of "") are    *)
(* computed and not assumed.  An optional string that is absent is the      *)
(* one-token sequence Undefined; an optional object that is absent is the   *)
(* record Absent.                                                           *)
(***************************************************************************)
EXTENDS Integers, Sequences, FiniteSets, TLC

VARIABLES
    proxy,      \* the Proxy object: its private fields
    pc,         \* "idle", or "fetching" while initialize() awaits fetchSchema()
    ret,        \* the last public call on the proxy and what it returned
    call,       \* the handler invocation in flight, if any
    outbound,   \* the outbound requests issued by the current handler invocation
    response,   \* what the transport delivered for the awaited request
    reply       \* how the last handler invocation settled

VARIABLES
    proxyApis,      \* ApiGateway.proxyApis: the ProxyApi objects, in creation order
    strategy,       \* the serving strategy shared by the gateway: calls received
    mainProxyApi,   \* ApiGateway.mainProxyApi
    gcall,          \* the ApiGateway.initialize() / run() call in flight or settled
    gret,           \* the result of the last call that returned a value
    calls           \* how many initialize() / run() calls were made so far

VARIABLES
    routes,         \* WebSocketProxy.routes: full path -> backend URL, in insertion order
    conns,          \* the connections handed to handleConnection, in arrival order
    match           \* an application of matchesPattern: its arguments and result

pvars == <<proxy, pc, ret>>
hvars == <<call, outbound, response, reply>>
gwvars == <<proxyApis, strategy, mainProxyApi, gcall, gret, calls>>
wsvars == <<routes, conns, match>>
vars == <<pvars, hvars, gwvars, wsvars>>

----------------------------------------------------------------------------
(* Bounds *)

MaxOps == 2     \* longest schema.operations of the lifecycle specification
MaxLen == 3     \* longest id / path string of the route-name specification
MaxApis == 2    \* most ProxyApi objects created on the gateway
MaxProxies == 2 \* most Proxy objects held by the gateway's ProxyApis together
MaxCalls == 2   \* most initialize() calls made on a ProxyApi itself
MaxRuns == 1    \* most initialize() / run() calls made on the gateway
MaxPath == 4    \* longest url / pattern string of the pattern-matching specification
MaxRoutes == 2  \* most routes registered on the WebSocketProxy
MaxConns == 1   \* most connections handed to handleConnection
MaxFrames == 2  \* most message events delivered on one connection

----------------------------------------------------------------------------
(* Values *)

Undefined == <<"undefined">>
Absent == [present |-> FALSE]

Chars == {"/", ".", "a"}

\* JavaScript truthiness of an optional string: undefined and "" are falsy
Truthy(s) == s # Undefined /\ s # <<>>

RECURSIVE StringsOfLen(_)
StringsOfLen(n) ==
    IF n = 0 THEN {<<>>}
    ELSE {<<c>> \o s : c \in Chars, s \in StringsOfLen(n - 1)}

StringsUpTo(n) == UNION {StringsOfLen(k) : k \in 0..n}

Rest(m, p) == [present |-> TRUE, method |-> m, path |-> p]
GraphQL(q) == [present |-> TRUE, query |-> q]
Grpc == [present |-> TRUE, service |-> "Svc", method |-> "Call"]

Operation(id, t, d, r, g, c) ==
    [id |-> id, operationType |-> t, description |-> d,
     rest |-> r, graphql |-> g, grpc |-> c]

Schema(name, url, ops) ==
    [present |-> TRUE, service |-> [name |-> name, baseUrl |-> url],
     operations |-> ops]

SvcName == <<"s", "v", "c">>
SvcUrl == <<"h", ":", "1">>

IdAB == <<"a", ".", "b">>
IdC == <<"c">>

\* the operations the lifecycle specification builds its schemas from
\* (two of them share an id: the code does not require unique ids)
Operations ==
    { Operation(IdAB, "query", Undefined, Rest("GET", <<"/", "u">>), Absent, Absent),
      Operation(IdC, "mutation", <<"d">>, Rest("POST", <<"/", "t">>), Absent, Absent),
      Operation(IdC, "subscription", <<>>, Absent, GraphQL("q1"), Absent) }

SeqsUpTo(S, n) == UNION {[1..k -> S] : k \in 0..n}

Schemas == {Schema(SvcName, SvcUrl, ops) : ops \in SeqsUpTo(Operations, MaxOps)}

Prefixes == {Undefined, <<"p">>}
OverrideIds == {IdAB, IdC}
Handlers == {"H1", "H2"}

----------------------------------------------------------------------------
(* Proxy: construction and queries *)

NewProxy(serviceName, serviceUrl, routePrefix) ==
    [serviceName |-> serviceName, serviceUrl |-> serviceUrl,
     routePrefix |-> routePrefix, schema |-> Absent,
     customHandlers |-> [x \in {} |-> x], methods |-> <<>>]

getMethods(p) == p.methods

\* faulty variant: the method list is not consulted
isInitialized_schemaOnly(p) == p.schema.present

isInitialized(p) == p.schema.present /\ Len(p.methods) > 0

----------------------------------------------------------------------------
(* Proxy: route names *)

\* String.prototype.replace(/^\//, ""): drops one leading slash
replaceLeadingSlash(s) ==
    IF Len(s) > 0 /\ s[1] = "/" THEN Tail(s) ELSE s

\* String.prototype.replace(".", "/"): a string pattern replaces the first
\* occurrence only
replaceDot(s) ==
    LET dots == {i \in 1..Len(s) : s[i] = "."}
    IN IF dots = {} THEN s
       ELSE LET k == CHOOSE i \in dots : \A j \in dots : i <= j
            IN [s EXCEPT ![k] = "/"]

\* faulty variant: every dot of the id is replaced, as a global replace would
buildRouteName_replaceAll(p, operation) ==
    LET prefix == IF Truthy(p.routePrefix) THEN p.routePrefix ELSE p.serviceName
    IN IF operation.rest.present /\ Truthy(operation.rest.path)
       THEN prefix \o <<"/">> \o replaceLeadingSlash(operation.rest.path)
       ELSE prefix \o <<"/">> \o
            [i \in 1..Len(operation.id) |->
                IF operation.id[i] = "." THEN "/" ELSE operation.id[i]]

buildRouteName(p, operation) ==
    LET prefix == IF Truthy(p.routePrefix) THEN p.routePrefix ELSE p.serviceName
    IN IF operation.rest.present /\ Truthy(operation.rest.path)
       THEN prefix \o <<"/">> \o replaceLeadingSlash(operation.rest.path)
       ELSE prefix \o <<"/">> \o replaceDot(operation.id)

mapOperationToMethodType(operationType) ==
    CASE operationType = "query" -> "GET"
      [] operationType = "mutation" -> "CREATE"
      [] operationType = "subscription" -> "GET"
      [] OTHER -> "GET"

----------------------------------------------------------------------------
(* Proxy: default handler dispatch *)

Inputs == {"i1", "i2"}
Bodies == {"b1", "b2"}
TransportMessages == {<<"ECONNREFUSED">>, <<"status 500">>}

Error(message) == [axios |-> FALSE, message |-> message]
AxiosError(message) == [axios |-> TRUE, message |-> message]

\* faulty variant: the verb is compared as written in the schema
toLowerCase_identity(m) == m

\* String.prototype.toLowerCase on the HTTP verbs
toLowerCase(m) ==
    CASE m = "GET" -> "get"
      [] m = "POST" -> "post"
      [] m = "PUT" -> "put"
      [] m = "PATCH" -> "patch"
      [] m = "DELETE" -> "delete"
      [] OTHER -> m

\* The outcome of the synchronous part of a handler: either an outbound
\* request the handler now awaits, or an error thrown before any request.
Await(request) == [kind |-> "await", request |-> request]
Throw(error) == [kind |-> "throw", error |-> error]

\* faulty variant: the backend URL is built from the gateway route name
callRestEndpoint_routeUrl(p, operation, input) ==
    IF ~operation.rest.present
    THEN Throw(Error(<<"REST details missing">>))
    ELSE LET url == p.serviceUrl \o <<"/">> \o buildRouteName(p, operation)
             method == toLowerCase(operation.rest.method)
             config == [method |-> method, url |-> url,
                        headers |-> {"Content-Type: application/json"},
                        params |-> Absent, data |-> Absent]
         IN Await(IF method = "get"
                  THEN [config EXCEPT !.params = [value |-> input]]
                  ELSE [config EXCEPT !.data = [value |-> input]])

callRestEndpoint(p, operation, input) ==
    IF ~operation.rest.present
    THEN Throw(Error(<<"REST details missing">>))
    ELSE LET url == p.serviceUrl \o operation.rest.path
             method == toLowerCase(operation.rest.method)
             config == [method |-> method, url |-> url,
                        headers |-> {"Content-Type: application/json"},
                        params |-> Absent, data |-> Absent]
         IN Await(IF method = "get"
                  THEN [config EXCEPT !.params = [value |-> input]]
                  ELSE [config EXCEPT !.data = [value |-> input]])

callGraphQLEndpoint(p, operation, input) ==
    IF ~operation.graphql.present
    THEN Throw(Error(<<"GraphQL details missing">>))
    ELSE Await([method |-> "post", url |-> p.serviceUrl \o <<"/graphql">>,
                headers |-> {}, params |-> Absent,
                data |-> [query |-> operation.graphql.query,
                          variables |-> input]])

\* faulty variant: the graphql block is looked at before the rest block
dispatch_graphqlFirst(p, operation, input) ==
    IF operation.graphql.present THEN callGraphQLEndpoint(p, operation, input)
    ELSE IF operation.rest.present THEN callRestEndpoint(p, operation, input)
    ELSE IF operation.grpc.present THEN Throw(Error(<<"gRPC not yet implemented">>))
    ELSE Throw(Error(<<"Unknown protocol for operation ">> \o operation.id))

\* faulty variant: the gRPC branch is missing, gRPC operations fall through
dispatch_noGrpc(p, operation, input) ==
    IF operation.rest.present THEN callRestEndpoint(p, operation, input)
    ELSE IF operation.graphql.present THEN callGraphQLEndpoint(p, operation, input)
    ELSE Throw(Error(<<"Unknown protocol for operation ">> \o operation.id))

\* the try block of the closure returned by createDefaultProxyHandler
dispatch(p, operation, input) ==
    IF operation.rest.present THEN callRestEndpoint(p, operation, input)
    ELSE IF operation.graphql.present THEN callGraphQLEndpoint(p, operation, input)
    ELSE IF operation.grpc.present THEN Throw(Error(<<"gRPC not yet implemented">>))
    ELSE Throw(Error(<<"Unknown protocol for operation ">> \o operation.id))

\* faulty variant: the transport error is rethrown without the operation id
catchProxyError_rethrow(operation, error) == Error(error.message)

\* the catch block of the closure: an axios error is wrapped with the
\* operation id, any other error is rethrown as it is
catchProxyError(operation, error) ==
    IF error.axios
    THEN Error(<<"Proxy call failed for ">> \o operation.id \o <<": ">>
               \o error.message)
    ELSE error

\* the closure captures the operation (and this)
createDefaultProxyHandler(operation) ==
    [kind |-> "default", operation |-> operation]

CustomHandler(h) == [kind |-> "custom", h |-> h]

----------------------------------------------------------------------------
(* Proxy: method synthesis, override, factory *)

Method(type, name, handler, description) ==
    [type |-> type, name |-> name, handler |-> handler,
     description |-> description]

\* faulty variant: the override table is not consulted
generateMethod_alwaysDefault(p, operation) ==
    Method(mapOperationToMethodType(operation.operationType),
           buildRouteName(p, operation),
           createDefaultProxyHandler(operation),
           IF Truthy(operation.description)
           THEN operation.description
           ELSE <<"Proxy to ">> \o p.serviceName \o <<": ">> \o operation.id)

\* one iteration of the loop of generateProxyMethods
generateMethod(p, operation) ==
    LET handler == IF operation.id \in DOMAIN p.customHandlers
                   THEN CustomHandler(p.customHandlers[operation.id])
                   ELSE createDefaultProxyHandler(operation)
    IN Method(mapOperationToMethodType(operation.operationType),
              buildRouteName(p, operation),
              handler,
              IF Truthy(operation.description)
              THEN operation.description
              ELSE <<"Proxy to ">> \o p.serviceName \o <<": ">> \o operation.id)

\* faulty variant: the list is not emptied, the new methods follow the old
generateProxyMethods_keep(p) ==
    IF ~p.schema.present
    THEN [threw |-> TRUE, proxy |-> p,
          error |-> Error(<<"Schema not loaded. Call initialize() first.">>)]
    ELSE [threw |-> FALSE,
          proxy |-> [p EXCEPT !.methods =
                        @ \o [i \in 1..Len(p.schema.operations) |->
                                 generateMethod(p, p.schema.operations[i])]]]

\* faulty variant: each method is put at the front of the list (unshift for push)
generateProxyMethods_unshift(p) ==
    IF ~p.schema.present
    THEN [threw |-> TRUE, proxy |-> p,
          error |-> Error(<<"Schema not loaded. Call initialize() first.">>)]
    ELSE LET n == Len(p.schema.operations)
         IN [threw |-> FALSE,
             proxy |-> [p EXCEPT !.methods =
                           [i \in 1..n |->
                               generateMethod(p, p.schema.operations[n + 1 - i])]]]

generateProxyMethods(p) ==
    IF ~p.schema.present
    THEN [threw |-> TRUE, proxy |-> p,
          error |-> Error(<<"Schema not loaded. Call initialize() first.">>)]
    ELSE [threw |-> FALSE,
          proxy |-> [p EXCEPT !.methods =
                        [i \in 1..Len(p.schema.operations) |->
                            generateMethod(p, p.schema.operations[i])]]]

\* faulty variant: a later override is applied to the generated methods at once
override_regenerate(p, operationId, handler) ==
    LET q == [p EXCEPT !.customHandlers =
                 [x \in DOMAIN p.customHandlers \cup {operationId} |->
                     IF x = operationId THEN handler ELSE p.customHandlers[x]]]
    IN generateProxyMethods(q).proxy

override(p, operationId, handler) ==
    [p EXCEPT !.customHandlers =
        [x \in DOMAIN p.customHandlers \cup {operationId} |->
            IF x = operationId THEN handler ELSE p.customHandlers[x]]]

fromSchema(schema, routePrefix) ==
    LET created == NewProxy(schema.service.name, schema.service.baseUrl, routePrefix)
    IN generateProxyMethods([created EXCEPT !.schema = schema]).proxy

\* initialize() after fetchSchema() has resolved with schema
initialize(p, schema) ==
    generateProxyMethods([p EXCEPT !.schema = schema])

----------------------------------------------------------------------------
(* The other components, left as constructed while one Proxy is observed *)

NoCall == [kind |-> "none", state |-> "none", waiting |-> {}, error |-> Absent]

GatewayAtRest ==
    /\ proxyApis = <<>>
    /\ strategy = [configured |-> <<>>, runs |-> 0]
    /\ mainProxyApi = Absent
    /\ gcall = NoCall
    /\ gret = [op |-> "new"]
    /\ calls = 0

WebSocketAtRest ==
    /\ routes = <<>>
    /\ conns = <<>>
    /\ match = [applied |-> FALSE]

----------------------------------------------------------------------------
(* Lifecycle of one Proxy: the public calls, in any order *)

Idle == [state |-> "idle"]
NoReply == [kind |-> "none"]
NoResponse == [kind |-> "none"]

Init ==
    /\ \E routePrefix \in Prefixes :
          proxy = NewProxy(SvcName, SvcUrl, routePrefix)
    /\ pc = "idle"
    /\ ret = [op |-> "new"]
    /\ call = Idle
    /\ outbound = <<>>
    /\ response = NoResponse
    /\ reply = NoReply
    /\ GatewayAtRest
    /\ WebSocketAtRest

\* Proxy.fromSchema: a static factory.  Its result does not depend on any
\* existing proxy, so it is taken as the first step: the proxy observed from
\* then on is the one it returns.
FromSchema(schema, routePrefix) ==
    /\ ret = [op |-> "new"]
    /\ proxy' = fromSchema(schema, routePrefix)
    /\ pc' = "idle"
    /\ ret' = [op |-> "fromSchema"]
    /\ UNCHANGED <<hvars, gwvars, wsvars>>

Override(operationId, handler) ==
    /\ proxy' = override(proxy, operationId, handler)
    /\ ret' = [op |-> "override"]
    /\ UNCHANGED <<pc, hvars, gwvars, wsvars>>

\* initialize() up to its await: GET {serviceUrl}/schema is in flight
InitializeBegin ==
    /\ pc = "idle"
    /\ pc' = "fetching"
    /\ ret' = [op |-> "initialize", status |-> "pending"]
    /\ UNCHANGED <<proxy, hvars, gwvars, wsvars>>

\* fetchSchema() resolved: the schema is stored and the methods are generated
\* (held tells, for the record, how many methods the list held before)
FetchResolved(schema) ==
    /\ pc = "fetching"
    /\ LET r == initialize(proxy, schema)
       IN /\ proxy' = r.proxy
          /\ ret' = [op |-> "initialize",
                     status |-> IF r.threw THEN "throw" ELSE "ok",
                     held |-> Len(proxy.methods)]
    /\ pc' = "idle"
    /\ UNCHANGED <<hvars, gwvars, wsvars>>

\* faulty variant: the schema is dropped when the fetch fails
FetchRejected_cleared(message) ==
    /\ pc = "fetching"
    /\ pc' = "idle"
    /\ proxy' = [proxy EXCEPT !.schema = Absent]
    /\ ret' = [op |-> "initialize", status |-> "throw",
               error |-> AxiosError(message)]
    /\ UNCHANGED <<hvars, gwvars, wsvars>>

\* fetchSchema() rejected: the error is logged and rethrown, nothing is stored
FetchRejected(message) ==
    /\ pc = "fetching"
    /\ pc' = "idle"
    /\ ret' = [op |-> "initialize", status |-> "throw",
               error |-> AxiosError(message)]
    /\ UNCHANGED <<proxy, hvars, gwvars, wsvars>>

\* faulty variant: the getter refuses to answer before a schema is stored
GetMethods_guarded ==
    /\ ret' = IF proxy.schema.present
              THEN [op |-> "getMethods", status |-> "ok", methods |-> getMethods(proxy)]
              ELSE [op |-> "getMethods", status |-> "throw",
                    error |-> Error(<<"Schema not loaded. Call initialize() first.">>)]
    /\ UNCHANGED <<proxy, pc, hvars, gwvars, wsvars>>

GetMethods ==
    /\ ret' = [op |-> "getMethods", status |-> "ok", methods |-> getMethods(proxy)]
    /\ UNCHANGED <<proxy, pc, hvars, gwvars, wsvars>>

IsInitialized ==
    /\ ret' = [op |-> "isInitialized", result |-> isInitialized(proxy)]
    /\ UNCHANGED <<proxy, pc, hvars, gwvars, wsvars>>

Next ==
    \/ \E schema \in Schemas, routePrefix \in Prefixes : FromSchema(schema, routePrefix)
    \/ \E id \in OverrideIds, h \in Handlers : Override(id, h)
    \/ InitializeBegin
    \/ \E schema \in Schemas : FetchResolved(schema)
    \/ \E m \in TransportMessages : FetchRejected(m)
    \/ GetMethods
    \/ IsInitialized

Spec == Init /\ [][Next]_vars

----------------------------------------------------------------------------
(* Route names: Proxy.fromSchema over every short id, path and prefix *)

RouteNames == {<<>>, <<"a">>}
RoutePrefixes == {Undefined, <<>>, <<"a">>, <<"/">>}

RouteOperations ==
    {Operation(id, "query", Undefined, r, Absent, Absent) :
        id \in StringsUpTo(MaxLen),
        r \in {Absent} \cup {Rest("GET", path) : path \in StringsUpTo(MaxLen)}}

\* inside Proxy.fromSchema, after proxy.schema = schema
RouteInit ==
    /\ \E name \in RouteNames, routePrefix \in RoutePrefixes,
          operation \in RouteOperations :
          proxy = [NewProxy(name, SvcUrl, routePrefix) EXCEPT
                      !.schema = Schema(name, SvcUrl, <<operation>>)]
    /\ pc = "fromSchema"
    /\ ret = [op |-> "new"]
    /\ call = Idle
    /\ outbound = <<>>
    /\ response = NoResponse
    /\ reply = NoReply
    /\ GatewayAtRest
    /\ WebSocketAtRest

\* the rest of Proxy.fromSchema: proxy.generateProxyMethods(); return proxy
FromSchemaGenerate ==
    /\ pc = "fromSchema"
    /\ proxy' = generateProxyMethods(proxy).proxy
    /\ pc' = "idle"
    /\ ret' = [op |-> "fromSchema"]
    /\ UNCHANGED <<hvars, gwvars, wsvars>>

RouteNext == FromSchemaGenerate

SpecRoute == RouteInit /\ [][RouteNext]_vars

----------------------------------------------------------------------------
(* Dispatch: invocations of the handler of a generated Method *)

HttpMethods == {"GET", "POST", "PUT", "PATCH", "DELETE"}
ServiceUrls == {SvcUrl, <<"h", ":", "2">>}

DispatchOperations ==
    {Operation(id, "query", Undefined, r, g, c) :
        id \in {IdAB, IdC},
        r \in {Absent} \cup {Rest(m, path) : m \in HttpMethods,
                                             path \in {<<"/", "u">>, <<"/", "t">>}},
        g \in {Absent, GraphQL("q1")},
        c \in {Absent, Grpc}}

\* a proxy after new Proxy(...), at most one override(), and initialize()
DispatchInit ==
    /\ \E operation \in DispatchOperations, url \in ServiceUrls,
          routePrefix \in Prefixes, overridden \in BOOLEAN :
          LET created == NewProxy(SvcName, url, routePrefix)
              prepared == IF overridden
                          THEN override(created, operation.id, "H1")
                          ELSE created
          IN proxy = initialize(prepared, Schema(SvcName, url, <<operation>>)).proxy
    /\ pc = "idle"
    /\ ret = [op |-> "initialize", status |-> "ok"]
    /\ call = Idle
    /\ outbound = <<>>
    /\ response = NoResponse
    /\ reply = NoReply
    /\ GatewayAtRest
    /\ WebSocketAtRest

\* method.handler(input) is called: the synchronous part of the handler
Invoke(i, input) ==
    /\ call.state = "idle"
    /\ LET handler == proxy.methods[i].handler
       IN IF handler.kind = "custom"
          THEN \* control passes to the caller-supplied handler
               /\ call' = Idle
               /\ outbound' = <<>>
               /\ reply' = [kind |-> "custom", handler |-> handler, input |-> input]
          ELSE LET d == dispatch(proxy, handler.operation, input)
               IN IF d.kind = "await"
                  THEN /\ call' = [state |-> "awaiting", handler |-> handler,
                                   input |-> input]
                       /\ outbound' = <<d.request>>
                       /\ reply' = [kind |-> "pending"]
                  ELSE /\ call' = Idle
                       /\ outbound' = <<>>
                       /\ reply' = [kind |-> "rejected", handler |-> handler,
                                    input |-> input,
                                    error |-> catchProxyError(handler.operation, d.error)]
    /\ response' = NoResponse
    /\ UNCHANGED <<pvars, gwvars, wsvars>>

\* the awaited request resolves: the handler returns response.data
Respond(body) ==
    /\ call.state = "awaiting"
    /\ reply' = [kind |-> "resolved", handler |-> call.handler,
                 input |-> call.input, value |-> body]
    /\ response' = [kind |-> "data", data |-> body]
    /\ call' = Idle
    /\ UNCHANGED <<pvars, outbound, gwvars, wsvars>>

\* the awaited request fails in the transport: axios rejects with an AxiosError
TransportFail(message) ==
    /\ call.state = "awaiting"
    /\ reply' = [kind |-> "rejected", handler |-> call.handler,
                 input |-> call.input,
                 error |-> catchProxyError(call.handler.operation, AxiosError(message))]
    /\ response' = [kind |-> "error", error |-> AxiosError(message)]
    /\ call' = Idle
    /\ UNCHANGED <<pvars, outbound, gwvars, wsvars>>

DispatchNext ==
    \/ \E i \in 1..Len(proxy.methods), input \in Inputs : Invoke(i, input)
    \/ \E body \in Bodies : Respond(body)
    \/ \E m \in TransportMessages : TransportFail(m)

SpecDispatch == DispatchInit /\ [][DispatchNext]_vars

----------------------------------------------------------------------------
(* Properties of the lifecycle (Spec) *)

UniqueIds(ops) ==
    \A i, j \in 1..Len(ops) : ops[i].id = ops[j].id => i = j

DefaultDescription(p, operation) ==
    <<"Proxy to ">> \o p.serviceName \o <<": ">> \o operation.id

\* C1: for every schema whose operation ids are unique, the proxy returned by
\* Proxy.fromSchema(schema) has exactly one Method per operation, in the order
\* of schema.operations: the i-th Method is the one of the i-th operation.
C1_OneMethodPerOperation ==
    (ret.op = "fromSchema" /\ UniqueIds(proxy.schema.operations)) =>
        LET ops == proxy.schema.operations
            ms == getMethods(proxy)
        IN /\ Len(ms) = Len(ops)
           /\ \A i \in 1..Len(ops) :
                 /\ ms[i].handler = [kind |-> "default", operation |-> ops[i]]
                 /\ ms[i].type = IF ops[i].operationType = "mutation"
                                 THEN "CREATE" ELSE "GET"
                 /\ ms[i].description \in
                       {ops[i].description, DefaultDescription(proxy, ops[i])}

C1_Witness ==
    /\ ret.op = "fromSchema"
    /\ Len(proxy.schema.operations) = 2
    /\ UniqueIds(proxy.schema.operations)
    /\ proxy.schema.operations[1].id = IdC
    /\ Len(getMethods(proxy)) = 2
    /\ getMethods(proxy)[1].handler.operation.id = IdC

\* C2: when initialize() succeeds, the Method generated for an operation whose
\* id has an override registered at that moment (by an override() call made
\* before synthesis) has the registered handler itself, and the Method of every
\* operation without an override has the default dispatch handler.
C2_OverrideBeforeInitialize ==
    [][(pc = "fetching" /\ pc' = "idle" /\ ret'.status = "ok") =>
          /\ Len(proxy'.methods) = Len(proxy'.schema.operations)
          /\ \A i \in 1..Len(proxy'.schema.operations) :
                LET operation == proxy'.schema.operations[i]
                IN IF operation.id \in DOMAIN proxy.customHandlers
                   THEN proxy'.methods[i].handler =
                           [kind |-> "custom", h |-> proxy.customHandlers[operation.id]]
                   ELSE proxy'.methods[i].handler =
                           [kind |-> "default", operation |-> operation]]_vars

C2_Witness ==
    /\ ret.op = "initialize" /\ ret.status = "ok"
    /\ Len(proxy.methods) = 2
    /\ proxy.schema.operations[1].id = IdAB
    /\ proxy.methods[1].handler = [kind |-> "custom", h |-> "H2"]
    /\ proxy.methods[2].handler.kind = "default"

\* C3: once the methods of a Proxy have been synthesized, a call of
\* override(id, H) leaves the list returned by getMethods() unchanged.
C3_OverrideAfterSynthesis ==
    [][(proxy.schema.present /\ ret'.op = "override") =>
          getMethods(proxy') = getMethods(proxy)]_vars

C3_Witness ==
    /\ ret.op = "override"
    /\ proxy.schema.present
    /\ \E i \in 1..Len(proxy.methods) :
          /\ proxy.schema.operations[i].id \in DOMAIN proxy.customHandlers
          /\ proxy.methods[i].handler.kind = "default"

\* C4: isInitialized() answers false while no schema is stored, true once a
\* schema with at least one operation has been processed, and false once a
\* schema with no operation has been processed.
C4_IsInitialized ==
    ret.op = "isInitialized" =>
        ret.result = (proxy.schema.present /\ Len(proxy.schema.operations) >= 1)

C4_Witness ==
    /\ ret.op = "isInitialized"
    /\ proxy.schema.present
    /\ Len(proxy.schema.operations) = 0
    /\ ret.result = FALSE

\* C10 as stated: getMethods() called while no schema is stored fails with a
\* not-initialized error.
C10_GetMethodsFailsBeforeSchema ==
    (ret.op = "getMethods" /\ ~proxy.schema.present) => ret.status = "throw"

\* C10 as amended: getMethods() called while no schema is stored returns the
\* empty list and raises nothing; the not-initialized error comes from method
\* synthesis alone, which fails exactly when no schema is stored.
C10_GetMethodsBeforeSchema ==
    /\ (ret.op = "getMethods" /\ ~proxy.schema.present) =>
          (ret.status = "ok" /\ ret.methods = <<>>)
    /\ generateProxyMethods(proxy).threw = ~proxy.schema.present

C10_Witness ==
    /\ ret.op = "getMethods"
    /\ ~proxy.schema.present
    /\ DOMAIN proxy.customHandlers # {}
    /\ ret.status = "ok"

----------------------------------------------------------------------------
(* Properties of the route names (SpecRoute) *)

DropOneLeadingSlash(s) ==
    IF s # <<>> /\ Head(s) = "/" THEN SubSeq(s, 2, Len(s)) ELSE s

RECURSIVE FirstDotToSlash(_)
FirstDotToSlash(s) ==
    IF s = <<>> THEN <<>>
    ELSE IF Head(s) = "." THEN <<"/">> \o Tail(s)
    ELSE <<Head(s)>> \o FirstDotToSlash(Tail(s))

\* C5 as stated: with prefix = routePrefix when given, else serviceName, an
\* operation that has a REST path p is named prefix/(p less one leading slash)
\* and an operation without a REST path prefix/(id with its first dot
\* replaced by a slash).
C5_RouteNameAsStated ==
    ret.op = "fromSchema" =>
        LET operation == proxy.schema.operations[1]
            prefix == IF proxy.routePrefix # Undefined
                      THEN proxy.routePrefix ELSE proxy.serviceName
        IN getMethods(proxy)[1].name =
              IF operation.rest.present
              THEN prefix \o <<"/">> \o DropOneLeadingSlash(operation.rest.path)
              ELSE prefix \o <<"/">> \o FirstDotToSlash(operation.id)

\* C5 as amended: an empty routePrefix counts as not given and an empty REST
\* path as no REST path.  With prefix = routePrefix when given and not empty,
\* else serviceName, an operation that has a non-empty REST path p is named
\* prefix/(p less one leading slash); any other operation is named
\* prefix/(id with its first dot replaced by a slash).
C5_RouteName ==
    ret.op = "fromSchema" =>
        LET operation == proxy.schema.operations[1]
            prefix == IF proxy.routePrefix # Undefined /\ proxy.routePrefix # <<>>
                      THEN proxy.routePrefix ELSE proxy.serviceName
        IN getMethods(proxy)[1].name =
              IF operation.rest.present /\ operation.rest.path # <<>>
              THEN prefix \o <<"/">> \o DropOneLeadingSlash(operation.rest.path)
              ELSE prefix \o <<"/">> \o FirstDotToSlash(operation.id)

C5_Witness ==
    /\ ret.op = "fromSchema"
    /\ proxy.routePrefix = Undefined
    /\ proxy.serviceName = <<"a">>
    /\ ~proxy.schema.operations[1].rest.present
    /\ proxy.schema.operations[1].id = <<".", "a", ".">>
    /\ getMethods(proxy)[1].name = <<"a", "/", "/", "a", ".">>

----------------------------------------------------------------------------
(* Properties of the default handler (SpecDispatch) *)

\* s occurs in t as a contiguous part
IsInfix(s, t) ==
    \E k \in 0..(Len(t) - Len(s)) : SubSeq(t, k + 1, k + Len(s)) = s

UpperCase(m) ==
    CASE m = "get" -> "GET"
      [] m = "post" -> "POST"
      [] m = "put" -> "PUT"
      [] m = "patch" -> "PATCH"
      [] m = "delete" -> "DELETE"
      [] OTHER -> m

\* the invocation the state speaks of: the default handler that awaits its
\* request, or the one that settled last
Invoked == call.state = "awaiting" \/ reply.kind \in {"resolved", "rejected"}
InvokedOperation ==
    IF call.state = "awaiting" THEN call.handler.operation
    ELSE reply.handler.operation
InvokedInput == IF call.state = "awaiting" THEN call.input ELSE reply.input

\* C6: the default handler of a REST operation sends input as query
\* parameters and no body when rest.method is GET, and as the body and no
\* query parameters when it is POST, PUT, PATCH or DELETE.
C6_RestInputPlacement ==
    (Invoked /\ InvokedOperation.rest.present) =>
        /\ Len(outbound) >= 1
        /\ \A k \in 1..Len(outbound) :
              /\ InvokedOperation.rest.method = "GET" =>
                    /\ outbound[k].params = [value |-> InvokedInput]
                    /\ outbound[k].data = Absent
              /\ InvokedOperation.rest.method \in {"POST", "PUT", "PATCH", "DELETE"} =>
                    /\ outbound[k].data = [value |-> InvokedInput]
                    /\ outbound[k].params = Absent
                    /\ "Content-Type: application/json" \in outbound[k].headers

C6_Witness ==
    /\ call.state = "awaiting"
    /\ call.handler.operation.rest.present
    /\ call.handler.operation.rest.method = "GET"
    /\ call.input = "i2"
    /\ outbound[1].params = [value |-> "i2"]

\* C7: each call of the default handler of a REST operation issues exactly one
\* outbound request, with verb rest.method, to serviceUrl + rest.path (no
\* route prefix in it), and resolves with the response body it received.
C7_RestRequest ==
    (Invoked /\ InvokedOperation.rest.present) =>
        /\ Len(outbound) = 1
        /\ UpperCase(outbound[1].method) = InvokedOperation.rest.method
        /\ outbound[1].url = proxy.serviceUrl \o InvokedOperation.rest.path
        /\ response.kind = "data" =>
              (reply.kind = "resolved" /\ reply.value = response.data)

C7_Witness ==
    /\ reply.kind = "resolved"
    /\ reply.handler.operation.rest.present
    /\ reply.handler.operation.rest.method = "PUT"
    /\ proxy.routePrefix = <<"p">>
    /\ Len(outbound) = 1
    /\ reply.value = "b2"

GrpcError == Error(<<"gRPC not yet implemented">>)

\* C8 as stated: for every operation that carries a grpc detail block, the
\* default handler rejects with "gRPC not yet implemented" and issues no
\* outbound request.
C8_GrpcAsStated ==
    (Invoked /\ InvokedOperation.grpc.present) =>
        /\ reply.kind = "rejected"
        /\ reply.error = GrpcError
        /\ outbound = <<>>

\* C8 as amended: for every operation that carries a grpc detail block and
\* neither a rest nor a graphql detail block, the default handler rejects
\* with "gRPC not yet implemented" and issues no outbound request.
C8_GrpcOnly ==
    (/\ Invoked
     /\ InvokedOperation.grpc.present
     /\ ~InvokedOperation.rest.present
     /\ ~InvokedOperation.graphql.present) =>
        /\ reply.kind = "rejected"
        /\ reply.error = GrpcError
        /\ outbound = <<>>

C8_Witness ==
    /\ reply.kind = "rejected"
    /\ reply.handler.operation.grpc.present
    /\ ~reply.handler.operation.rest.present
    /\ ~reply.handler.operation.graphql.present
    /\ reply.input = "i2"
    /\ reply.error = GrpcError

\* C9: when the outbound call of a default handler fails in the transport,
\* the handler rejects with an error whose message holds the operation id and
\* the message of the transport error.
C9_TransportFailure ==
    response.kind = "error" =>
        /\ reply.kind = "rejected"
        /\ IsInfix(reply.handler.operation.id, reply.error.message)
        /\ IsInfix(response.error.message, reply.error.message)

C9_Witness ==
    /\ response.kind = "error"
    /\ reply.kind = "rejected"
    /\ reply.handler.operation.id = IdAB
    /\ reply.handler.operation.graphql.present
    /\ ~reply.handler.operation.rest.present
    /\ response.error.message = <<"status 500">>

\* C26: the default handler dispatches on the first populated detail block
\* in the order rest, graphql, grpc.  With rest populated the one request goes
\* to serviceUrl + rest.path whatever else is populated; with graphql and no
\* rest it is a POST to serviceUrl + "/graphql" with body {query, variables:
\* input}; with grpc only the call fails as not implemented and with no block
\* at all it fails with an error naming the operation id, both without any
\* request.
C26_DispatchOrder ==
    Invoked =>
        LET operation == InvokedOperation
        IN /\ operation.rest.present =>
                 /\ Len(outbound) = 1
                 /\ outbound[1].url = proxy.serviceUrl \o operation.rest.path
                 /\ UpperCase(outbound[1].method) = operation.rest.method
           /\ (~operation.rest.present /\ operation.graphql.present) =>
                 /\ Len(outbound) = 1
                 /\ outbound[1].method = "post"
                 /\ outbound[1].url = proxy.serviceUrl \o <<"/graphql">>
                 /\ outbound[1].data = [query |-> operation.graphql.query,
                                        variables |-> InvokedInput]
                 /\ outbound[1].params = Absent
           /\ (/\ ~operation.rest.present /\ ~operation.graphql.present
               /\ operation.grpc.present) =>
                 /\ outbound = <<>>
                 /\ reply.kind = "rejected"
                 /\ reply.error = GrpcError
           /\ (/\ ~operation.rest.present /\ ~operation.graphql.present
               /\ ~operation.grpc.present) =>
                 /\ outbound = <<>>
                 /\ reply.kind = "rejected"
                 /\ reply.error # GrpcError
                 /\ IsInfix(operation.id, reply.error.message)

\* an operation with a graphql and a grpc block and no rest block was
\* invoked: its query is posted to /graphql
C26_Witness ==
    /\ call.state = "awaiting"
    /\ ~call.handler.operation.rest.present
    /\ call.handler.operation.graphql.present
    /\ call.handler.operation.grpc.present
    /\ call.input = "i2"
    /\ outbound[1].url = proxy.serviceUrl \o <<"/graphql">>

----------------------------------------------------------------------------
(* ProxyApi and ApiGateway: data *)

\* The backends of the gateway specification.  A backend answers
\* GET {url}/schema with its own schema, or the request fails.
SvcA == <<"a">>
SvcB == <<"b">>
GwServices == {SvcA, SvcB}
UrlOf(name) == <<"h", ":">> \o name

OpA == Operation(IdC, "query", Undefined, Rest("GET", <<"/", "u">>), Absent, Absent)
OpB1 == Operation(IdAB, "mutation", Undefined, Rest("POST", <<"/", "t">>), Absent, Absent)
OpB2 == Operation(IdC, "query", Undefined, Absent, GraphQL("q1"), Absent)

BackendSchema(url) ==
    IF url = UrlOf(SvcA) THEN Schema(SvcA, url, <<OpA>>)
    ELSE Schema(SvcB, url, <<OpB1, OpB2>>)

FetchError(url) == AxiosError(<<"connect ECONNREFUSED ">> \o url)

\* the schemas handed to createProxyApi
InjectedSchemas == {Schema(SvcA, UrlOf(SvcA), <<>>), BackendSchema(UrlOf(SvcB))}

\* A Proxy held by a ProxyApi: the object (p), whether its initialize() awaits
\* the fetch (pc), and for the record how it was built (origin) and how
\* many GET {serviceUrl}/schema it issued (fetches).
Held(p, origin) ==
    [p |-> p, pc |-> "idle", origin |-> origin, fetches |-> 0]

NoError == Absent
NotCalled == [state |-> "idle", owner |-> "none", error |-> NoError]

\* new ProxyApi(strategy, addDefaultMethods): registered is the sequence of
\* registerMethod calls it has received
NewProxyApi == [proxies |-> <<>>, registered |-> <<>>, call |-> NotCalled]

RECURSIVE Flatten(_)
Flatten(ss) == IF ss = <<>> THEN <<>> ELSE Head(ss) \o Flatten(Tail(ss))

Fetching(api) == {i \in 1..Len(api.proxies) : api.proxies[i].pc = "fetching"}

HeldCount == Len(Flatten([a \in 1..Len(proxyApis) |-> proxyApis[a].proxies]))

----------------------------------------------------------------------------
(* ProxyApi: operations *)

addProxy(api, held) == [api EXCEPT !.proxies = Append(@, held)]

\* faulty variant: the last index whose proxy has the name
findIndex_last(api, serviceName) ==
    LET hits == {i \in 1..Len(api.proxies) : api.proxies[i].p.serviceName = serviceName}
    IN IF hits = {} THEN 0 ELSE CHOOSE i \in hits : \A j \in hits : i >= j

\* Array.prototype.findIndex: the first index whose proxy has the name, 0 if none
findIndex(api, serviceName) ==
    LET hits == {i \in 1..Len(api.proxies) : api.proxies[i].p.serviceName = serviceName}
    IN IF hits = {} THEN 0 ELSE CHOOSE i \in hits : \A j \in hits : i <= j

removeProxy(api, serviceName) ==
    LET index == findIndex(api, serviceName)
    IN IF index # 0
       THEN [result |-> TRUE,
             api |-> [api EXCEPT !.proxies =
                         SubSeq(@, 1, index - 1) \o SubSeq(@, index + 1, Len(@))]]
       ELSE [result |-> FALSE, api |-> api]

\* faulty variant: the proxies are walked from the last to the first
registerProxyMethods_reversed(api) ==
    [api EXCEPT !.registered =
        @ \o Flatten([i \in 1..Len(api.proxies) |->
                         getMethods(api.proxies[Len(api.proxies) + 1 - i].p)])]

\* registerProxyMethods: one registerMethod call per method, proxy by proxy
registerProxyMethods(api) ==
    [api EXCEPT !.registered =
        @ \o Flatten([i \in 1..Len(api.proxies) |-> getMethods(api.proxies[i].p)])]

\* ProxyApi.initialize() up to its await: proxy.initialize() is called on
\* every proxy of the list, each issues its GET and awaits it.  With no proxy
\* Promise.all([]) is already fulfilled and the methods (none) are registered.
apiInitializeBegin(api, owner) ==
    LET started == [api EXCEPT
            !.proxies = [i \in 1..Len(api.proxies) |->
                            [api.proxies[i] EXCEPT !.pc = "fetching",
                                                   !.fetches = @ + 1]]]
    IN IF api.proxies = <<>>
       THEN [registerProxyMethods(api) EXCEPT
                !.call = [state |-> "resolved", owner |-> owner, error |-> NoError]]
       ELSE [started EXCEPT
                !.call = [state |-> "pending", owner |-> owner, error |-> NoError]]

\* faulty variant: the methods of a proxy are registered as soon as its own
\* fetch resolved
apiFetchResolved_eager(api, i) ==
    LET held == api.proxies[i]
        done == [held EXCEPT
                    !.p = initialize(held.p, BackendSchema(held.p.serviceUrl)).proxy,
                    !.pc = "idle"]
        api1 == [api EXCEPT !.proxies[i] = done,
                            !.registered = @ \o getMethods(done.p)]
    IN IF api.call.state = "pending" /\ Fetching(api1) = {}
       THEN [api1 EXCEPT !.call.state = "resolved"]
       ELSE api1

\* the fetch of proxy i resolved: that proxy stores the schema and generates
\* its methods; when it was the last one awaited by a pending initialize(),
\* Promise.all fulfils and the methods of all listed proxies are registered
apiFetchResolved(api, i) ==
    LET held == api.proxies[i]
        done == [held EXCEPT
                    !.p = initialize(held.p, BackendSchema(held.p.serviceUrl)).proxy,
                    !.pc = "idle"]
        api1 == [api EXCEPT !.proxies[i] = done]
    IN IF api.call.state = "pending" /\ Fetching(api1) = {}
       THEN [registerProxyMethods(api1) EXCEPT !.call.state = "resolved"]
       ELSE api1

\* the fetch of proxy i rejected: Promise.all rejects with the first error,
\* the other fetches go on
apiFetchRejected(api, i) ==
    LET held == api.proxies[i]
        api1 == [api EXCEPT !.proxies[i] = [held EXCEPT !.pc = "idle"]]
    IN IF api.call.state = "pending"
       THEN [api1 EXCEPT !.call.state = "rejected",
                         !.call.error = FetchError(held.p.serviceUrl)]
       ELSE api1

----------------------------------------------------------------------------
(* ApiGateway: operations *)

getApis == proxyApis

\* faulty variant: the schema is ignored, the ProxyApi gets no proxy
createProxyApi_empty(schema, routePrefix) == NewProxyApi

createProxyApi(schema, routePrefix) ==
    IF schema.present
    THEN addProxy(NewProxyApi, Held(fromSchema(schema, routePrefix), "fromSchema"))
    ELSE NewProxyApi

\* the merged table of run(): the methods of every proxy of every ProxyApi
allMethods(apis) ==
    Flatten([a \in 1..Len(apis) |->
                Flatten([i \in 1..Len(apis[a].proxies) |->
                            getMethods(apis[a].proxies[i].p)])])

\* faulty variant: the strategy is configured once per ProxyApi
runConfigure_perProxyApi(st, apis) ==
    [st EXCEPT !.configured = @ \o [a \in 1..Len(apis) |-> allMethods(<<apis[a]>>)],
               !.runs = @ + 1]

\* the part of run() after await this.initialize()
runConfigure(st, apis) ==
    [st EXCEPT !.configured = Append(@, allMethods(apis)), !.runs = @ + 1]

\* faulty variant: the gateway call waits for every ProxyApi before it rejects
gatewaySettle_allSettled(g, apis) ==
    IF g.state # "pending" THEN g
    ELSE LET rejected == {a \in g.waiting : apis[a].call.state = "rejected"}
             pending == {a \in g.waiting : apis[a].call.state = "pending"}
         IN IF pending # {} THEN g
            ELSE IF rejected # {}
            THEN [g EXCEPT !.state = "rejected",
                           !.error = apis[CHOOSE a \in rejected : TRUE].call.error]
            ELSE [g EXCEPT !.state = "resolved", !.waiting = {}]

\* how the gateway call in flight goes on once the calls of its ProxyApis
\* stand as in apis: it rejects with the first rejection, fulfils once no
\* ProxyApi it waits for is pending
gatewaySettle(g, apis) ==
    IF g.state # "pending" THEN g
    ELSE LET rejected == {a \in g.waiting : apis[a].call.state = "rejected"}
             pending == {a \in g.waiting : apis[a].call.state = "pending"}
         IN IF rejected # {}
            THEN [g EXCEPT !.state = "rejected",
                           !.error = apis[CHOOSE a \in rejected : TRUE].call.error,
                           !.waiting = pending]
            ELSE IF pending = {} THEN [g EXCEPT !.state = "resolved", !.waiting = {}]
            ELSE [g EXCEPT !.waiting = pending]

----------------------------------------------------------------------------
(* ApiGateway with its ProxyApis: actions *)

\* the variables of the single-Proxy specifications, held still
ProxyAtRest ==
    /\ proxy = NewProxy(SvcName, SvcUrl, Undefined)
    /\ pc = "idle"
    /\ ret = [op |-> "new"]
    /\ call = Idle
    /\ outbound = <<>>
    /\ response = NoResponse
    /\ reply = NoReply

\* new ApiGateway(strategy)
GatewayInit ==
    /\ ProxyAtRest
    /\ GatewayAtRest
    /\ WebSocketAtRest

\* no fetch of a proxy of this ProxyApi is awaited
Quiet(a) == Fetching(proxyApis[a]) = {}

\* gateway.createProxyApi(schema?, routePrefix?)
CreateProxyApi(schema, routePrefix) ==
    /\ Len(proxyApis) < MaxApis
    /\ schema.present => HeldCount < MaxProxies
    /\ proxyApis' = Append(proxyApis, createProxyApi(schema, routePrefix))
    /\ UNCHANGED <<strategy, mainProxyApi, gcall, gret, calls, pvars, hvars, wsvars>>

\* proxyApi.addProxy(new Proxy(serviceName, serviceUrl))
AddProxy(a, serviceName) ==
    /\ Quiet(a)
    /\ HeldCount < MaxProxies
    /\ proxyApis' = [proxyApis EXCEPT ![a] =
          addProxy(@, Held(NewProxy(serviceName, UrlOf(serviceName), Undefined), "new"))]
    /\ UNCHANGED <<strategy, mainProxyApi, gcall, gret, calls, pvars, hvars, wsvars>>

\* proxyApi.removeProxy(serviceName)
RemoveProxy(a, serviceName) ==
    /\ Quiet(a)
    /\ LET r == removeProxy(proxyApis[a], serviceName)
       IN /\ proxyApis' = [proxyApis EXCEPT ![a] = r.api]
          /\ gret' = [op |-> "removeProxy", result |-> r.result]
    /\ UNCHANGED <<strategy, mainProxyApi, gcall, calls, pvars, hvars, wsvars>>


\* proxyApi.initialize(), called on the ProxyApi itself
ApiInitialize(a) ==
    /\ Quiet(a)
    /\ calls < MaxCalls
    /\ calls' = calls + 1
    /\ proxyApis' = [proxyApis EXCEPT ![a] = apiInitializeBegin(@, "direct")]
    /\ UNCHANGED <<strategy, mainProxyApi, gcall, gret, pvars, hvars, wsvars>>

\* gateway.initialize() (kind "initialize") or gateway.run() (kind "run") up
\* to the await: initialize() is called on every ProxyApi.  With nothing to
\* await the call goes through at once.
GatewayCall(kind) ==
    /\ gcall.state # "pending"
    /\ \A a \in 1..Len(proxyApis) : Quiet(a)
    /\ calls < MaxRuns
    /\ calls' = calls + 1
    /\ LET apis == [a \in 1..Len(proxyApis) |-> apiInitializeBegin(proxyApis[a], "gateway")]
           g == gatewaySettle([kind |-> kind, state |-> "pending",
                               waiting |-> 1..Len(proxyApis), error |-> NoError], apis)
       IN /\ proxyApis' = apis
          /\ gcall' = g
          /\ strategy' = IF kind = "run" /\ g.state = "resolved"
                         THEN runConfigure(strategy, apis) ELSE strategy
    /\ UNCHANGED <<mainProxyApi, gret, pvars, hvars, wsvars>>

\* faulty variant: run() goes on to the strategy when initialize() rejected
GatewayGoesOn_swallow(a, apis) ==
    IF proxyApis[a].call.owner = "gateway"
    THEN LET g == gatewaySettle(gcall, apis)
         IN /\ gcall' = g
            /\ strategy' = IF gcall.state = "pending" /\ g.state # "pending"
                              /\ g.kind = "run"
                           THEN runConfigure(strategy, apis) ELSE strategy
    ELSE UNCHANGED <<gcall, strategy>>

\* what a settled fetch sets off when the ProxyApi was initialized by the gateway
GatewayGoesOn(a, apis) ==
    IF proxyApis[a].call.owner = "gateway"
    THEN LET g == gatewaySettle(gcall, apis)
         IN /\ gcall' = g
            /\ strategy' = IF gcall.state = "pending" /\ g.state = "resolved"
                              /\ g.kind = "run"
                           THEN runConfigure(strategy, apis) ELSE strategy
    ELSE UNCHANGED <<gcall, strategy>>

\* GET {serviceUrl}/schema of proxy i of ProxyApi a answered
GwFetchResolved(a, i) ==
    /\ proxyApis[a].proxies[i].pc = "fetching"
    /\ LET apis == [proxyApis EXCEPT ![a] = apiFetchResolved(@, i)]
       IN /\ proxyApis' = apis
          /\ GatewayGoesOn(a, apis)
    /\ UNCHANGED <<gret, calls, mainProxyApi, pvars, hvars, wsvars>>

\* GET {serviceUrl}/schema of proxy i of ProxyApi a failed
GwFetchRejected(a, i) ==
    /\ proxyApis[a].proxies[i].pc = "fetching"
    /\ LET apis == [proxyApis EXCEPT ![a] = apiFetchRejected(@, i)]
       IN /\ proxyApis' = apis
          /\ GatewayGoesOn(a, apis)
    /\ UNCHANGED <<gret, calls, mainProxyApi, pvars, hvars, wsvars>>

\* gateway.getMainApi()
GetMainApi ==
    /\ gret' = [op |-> "getMainApi", result |-> mainProxyApi]
    /\ UNCHANGED <<proxyApis, strategy, mainProxyApi, gcall, calls, pvars, hvars, wsvars>>

\* gateway.shutdown(): shuts the main ProxyApi down when there is one
Shutdown ==
    /\ gret' = [op |-> "shutdown", composite |-> mainProxyApi.present]
    /\ UNCHANGED <<proxyApis, strategy, mainProxyApi, gcall, calls, pvars, hvars, wsvars>>

\* The gateway is assembled (ProxyApis created, proxies added to them) and
\* started; getMainApi() and shutdown() are observed once a run() went through.
Assembling == calls = 0
AfterRun == gcall.kind = "run" /\ gcall.state = "resolved"

GatewayNext ==
    \/ \E schema \in InjectedSchemas \cup {Absent}, routePrefix \in {Undefined} :
          CreateProxyApi(schema, routePrefix)
    \/ \E a \in 1..Len(proxyApis), serviceName \in GwServices :
          Assembling /\ AddProxy(a, serviceName)
    \/ \E kind \in {"initialize", "run"} : GatewayCall(kind)
    \/ \E a \in 1..Len(proxyApis) : \E i \in 1..Len(proxyApis[a].proxies) :
          GwFetchResolved(a, i)
    \/ \E a \in 1..Len(proxyApis) : \E i \in 1..Len(proxyApis[a].proxies) :
          GwFetchRejected(a, i)
    \/ AfterRun /\ GetMainApi
    \/ AfterRun /\ Shutdown

SpecGateway == GatewayInit /\ [][GatewayNext]_vars

\* One ProxyApi on its own: new ProxyApi(strategy), then addProxy,
\* removeProxy and initialize() in any order.
ApiInit ==
    /\ ProxyAtRest
    /\ WebSocketAtRest
    /\ proxyApis = <<NewProxyApi>>
    /\ strategy = [configured |-> <<>>, runs |-> 0]
    /\ mainProxyApi = Absent
    /\ gcall = NoCall
    /\ gret = [op |-> "new"]
    /\ calls = 0

ApiNext ==
    \/ \E serviceName \in GwServices : AddProxy(1, serviceName)
    \/ \E serviceName \in GwServices : RemoveProxy(1, serviceName)
    \/ ApiInitialize(1)
    \/ \E i \in 1..Len(proxyApis[1].proxies) : GwFetchResolved(1, i)
    \/ \E i \in 1..Len(proxyApis[1].proxies) : GwFetchRejected(1, i)

SpecApi == ApiInit /\ [][ApiNext]_vars

----------------------------------------------------------------------------
(* Properties of ProxyApi and ApiGateway *)

AllHeld ==
    UNION {{proxyApis[a].proxies[i] : i \in 1..Len(proxyApis[a].proxies)} :
              a \in 1..Len(proxyApis)}

\* C11: the schema is fetched at most once in the life of a Proxy: a proxy
\* built with new Proxy(...) has issued at most one GET {serviceUrl}/schema,
\* a proxy built with Proxy.fromSchema has issued none, whatever calls of
\* createProxyApi, ProxyApi.initialize, ApiGateway.initialize and
\* ApiGateway.run were made.
C11_SchemaFetchedOnce ==
    \A held \in AllHeld :
        /\ held.origin = "new" => held.fetches <= 1
        /\ held.origin = "fromSchema" => held.fetches = 0
ProxyAt(a, i) == proxyApis[a].proxies[i]

\* C12: ApiGateway.initialize() is fail-fast.  When the schema fetch of a
\* proxy fails while the gateway call is pending, the call rejects in that
\* step with that proxy's failure, whatever the other ProxyApis did, and the
\* step changes no Proxy: the proxies that succeeded keep their schema and
\* methods.
C12_FailFast ==
    [][\A a \in 1..Len(proxyApis) : \A i \in 1..Len(proxyApis[a].proxies) :
          (gcall.state = "pending" /\ GwFetchRejected(a, i)) =>
             /\ gcall'.state = "rejected"
             /\ gcall'.error = FetchError(ProxyAt(a, i).p.serviceUrl)
             /\ \A b \in 1..Len(proxyApis) : \A j \in 1..Len(proxyApis[b].proxies) :
                   /\ proxyApis'[b].proxies[j].p = ProxyAt(b, j).p
                   /\ isInitialized(ProxyAt(b, j).p) =>
                         isInitialized(proxyApis'[b].proxies[j].p)]_vars

\* gateway.initialize() rejected with the failure of one ProxyApi's proxy
\* while the initialize() of another ProxyApi went through and its proxy,
\* fetched in that call, is initialized
C12_Witness ==
    /\ gcall.kind = "initialize"
    /\ gcall.state = "rejected"
    /\ \E a, b \in 1..Len(proxyApis) :
          /\ a # b
          /\ proxyApis[a].call.state = "rejected"
          /\ gcall.error = proxyApis[a].call.error
          /\ proxyApis[b].call.state = "resolved"
          /\ \E j \in 1..Len(proxyApis[b].proxies) :
                /\ ProxyAt(b, j).origin = "new"
                /\ isInitialized(ProxyAt(b, j).p)
\* the Methods of a proxy in schema order, one per operation of its schema
MethodsInSchemaOrder(p) ==
    IF p.schema.present
    THEN [k \in 1..Len(p.schema.operations) |-> generateMethod(p, p.schema.operations[k])]
    ELSE <<>>

\* this step fulfils an initialize() call of ProxyApi a
InitializeSucceeds(a) ==
    /\ proxyApis'[a].call.state = "resolved"
    /\ proxyApis[a].call.state = "pending" \/ calls' = calls + 1

\* C13: when ProxyApi.initialize() succeeds, the registerMethod calls it makes
\* are, in this order, the Methods of the first listed proxy in schema order,
\* then those of the second, and so on, whatever the order in which the
\* fetches completed; only the proxies listed at that time contribute, a
\* proxy removed before does not.
C13_RegistrationOrder ==
    [][InitializeSucceeds(1) =>
          /\ Len(proxyApis'[1].proxies) = Len(proxyApis[1].proxies)
          /\ proxyApis'[1].registered =
                proxyApis[1].registered \o
                Flatten([i \in 1..Len(proxyApis'[1].proxies) |->
                            MethodsInSchemaOrder(proxyApis'[1].proxies[i].p)])]_vars

\* one initialize() went through on the list [b, a], left after a proxy was
\* removed: the methods of b were registered before the method of a
C13_Witness ==
    /\ calls = 1
    /\ gret = [op |-> "removeProxy", result |-> TRUE]
    /\ proxyApis[1].call.state = "resolved"
    /\ Len(proxyApis[1].proxies) = 2
    /\ ProxyAt(1, 1).p.serviceName = SvcB
    /\ ProxyAt(1, 2).p.serviceName = SvcA
    /\ Len(proxyApis[1].registered) = 3
    /\ proxyApis[1].registered[1].name = buildRouteName(ProxyAt(1, 1).p, OpB1)
    /\ proxyApis[1].registered[3].name = buildRouteName(ProxyAt(1, 2).p, OpA)
\* C14: ProxyApi.initialize() registers nothing until every child has
\* succeeded: the registered methods change only in the step that fulfils the
\* call, when no fetch is pending any more.  When a child fails the call
\* rejects with that failure, and that call registers no Method, neither in
\* the failing step nor later when the other children complete.
C14_AllOrNothing ==
    [][/\ proxyApis'[1].registered # proxyApis[1].registered =>
             InitializeSucceeds(1) /\ Fetching(proxyApis'[1]) = {}
       /\ \A i \in 1..Len(proxyApis[1].proxies) :
             (proxyApis[1].call.state = "pending" /\ GwFetchRejected(1, i)) =>
                /\ proxyApis'[1].call.state = "rejected"
                /\ proxyApis'[1].call.error = FetchError(ProxyAt(1, i).p.serviceUrl)
                /\ proxyApis'[1].registered = proxyApis[1].registered
       /\ (proxyApis[1].call.state = "rejected" /\ calls' = calls) =>
             /\ proxyApis'[1].call.state = "rejected"
             /\ proxyApis'[1].registered = proxyApis[1].registered]_vars

\* the only initialize() call rejected; one child failed, the other one
\* succeeded and is initialized, and nothing was registered
C14_Witness ==
    /\ calls = 1
    /\ proxyApis[1].call.state = "rejected"
    /\ Fetching(proxyApis[1]) = {}
    /\ proxyApis[1].registered = <<>>
    /\ \E i, j \in 1..Len(proxyApis[1].proxies) :
          /\ isInitialized(ProxyAt(1, i).p)
          /\ ~isInitialized(ProxyAt(1, j).p)
Named(a, serviceName) ==
    {i \in 1..Len(proxyApis[a].proxies) : ProxyAt(a, i).p.serviceName = serviceName}

\* C15: removeProxy(name), also after initialize(): when a proxy of that name
\* is listed, the first such proxy leaves the list, the others keep their
\* order, the call returns true and the registered Methods stay as they are;
\* when none is listed the call returns false and nothing changes.
C15_RemoveProxy ==
    [][\A serviceName \in GwServices : RemoveProxy(1, serviceName) =>
          /\ proxyApis'[1].registered = proxyApis[1].registered
          /\ proxyApis'[1].call = proxyApis[1].call
          /\ IF Named(1, serviceName) # {}
             THEN \E k \in Named(1, serviceName) :
                     /\ \A j \in Named(1, serviceName) : k <= j
                     /\ gret'.result = TRUE
                     /\ Len(proxyApis'[1].proxies) = Len(proxyApis[1].proxies) - 1
                     /\ \A j \in 1..Len(proxyApis'[1].proxies) :
                           proxyApis'[1].proxies[j] =
                              IF j < k THEN ProxyAt(1, j) ELSE ProxyAt(1, j + 1)
             ELSE /\ gret'.result = FALSE
                  /\ proxyApis' = proxyApis]_vars

\* after an initialize() that registered its method, a second proxy of the
\* same name was added and removeProxy(name) returned true: the proxy left
\* is the second one (never fetched), the registered method is still there
C15_Witness ==
    /\ gret = [op |-> "removeProxy", result |-> TRUE]
    /\ calls = 1
    /\ proxyApis[1].call.state = "resolved"
    /\ Len(proxyApis[1].registered) = 1
    /\ Len(proxyApis[1].proxies) = 1
    /\ ProxyAt(1, 1).p.serviceName = SvcA
    /\ ProxyAt(1, 1).fetches = 0
\* this step fulfils a run() call of the gateway
RunSucceeds ==
    /\ gcall'.kind = "run"
    /\ gcall'.state = "resolved"
    /\ gcall.state = "pending" \/ calls' = calls + 1

RECURSIVE SumLen(_)
SumLen(ss) == IF ss = <<>> THEN 0 ELSE Len(Head(ss)) + SumLen(Tail(ss))

\* the Methods of every proxy: ProxyApis in creation order, the proxies of a
\* ProxyApi in list order, the Methods of a proxy in schema order
MergedInOrder(apis) ==
    Flatten([a \in 1..Len(apis) |->
        Flatten([i \in 1..Len(apis[a].proxies) |->
                    MethodsInSchemaOrder(apis[a].proxies[i].p)])])

\* C16: a run() that succeeds calls strategy.configure exactly once and
\* strategy.onApiRun exactly once, in the step in which the initialization of
\* every ProxyApi it initialized is complete, with a table built for this call that holds
\* every Method of every proxy in creation / list / schema order, as many as
\* the schemas have operations; the strategy is called at no other time.
C16_RunConfiguresOnce ==
    [][/\ RunSucceeds =>
             /\ Len(strategy'.configured) = Len(strategy.configured) + 1
             /\ strategy'.runs = strategy.runs + 1
             /\ \A a \in 1..Len(proxyApis') :
                   proxyApis'[a].call.owner = "gateway" =>
                      /\ proxyApis'[a].call.state = "resolved"
                      /\ Fetching(proxyApis'[a]) = {}
                      /\ \A i \in 1..Len(proxyApis'[a].proxies) :
                            isInitialized(proxyApis'[a].proxies[i].p)
             /\ LET table == strategy'.configured[Len(strategy'.configured)]
                IN /\ table = MergedInOrder(proxyApis')
                   /\ Len(table) =
                         SumLen([a \in 1..Len(proxyApis') |->
                            Flatten([i \in 1..Len(proxyApis'[a].proxies) |->
                               proxyApis'[a].proxies[i].p.schema.operations])])
       /\ strategy' # strategy => RunSucceeds]_vars

\* run() went through on two ProxyApis, the first holding the proxy of b (two
\* operations), the second the proxy of a (one): one table of three Methods
C16_Witness ==
    /\ AfterRun
    /\ strategy.runs = 1
    /\ Len(strategy.configured) = 1
    /\ Len(proxyApis) = 2
    /\ Len(proxyApis[1].proxies) = 1 /\ ProxyAt(1, 1).p.serviceName = SvcB
    /\ Len(proxyApis[2].proxies) = 1 /\ ProxyAt(2, 1).p.serviceName = SvcA
    /\ Len(strategy.configured[1]) = 3
    /\ strategy.configured[1][1].name = buildRouteName(ProxyAt(1, 1).p, OpB1)
    /\ strategy.configured[1][2].name = buildRouteName(ProxyAt(1, 1).p, OpB2)
    /\ strategy.configured[1][3].name = buildRouteName(ProxyAt(2, 1).p, OpA)
\* C17: after run(), getMainApi() returns the main composite ProxyApi, which
\* holds the proxies of all ProxyApis, and shutdown() shuts that ProxyApi down.
C17_MainApiAfterRun ==
    /\ (AfterRun /\ gret.op = "getMainApi") =>
          /\ gret.result.present
          /\ gret.result.proxies =
                Flatten([a \in 1..Len(proxyApis) |-> proxyApis[a].proxies])
    /\ (AfterRun /\ gret.op = "shutdown") => gret.composite
\* C18: every createProxyApi call adds one ProxyApi at the end of what
\* getApis() returns and leaves the earlier ones in place.  Called with a
\* schema, the new ProxyApi holds exactly one proxy, named
\* schema.service.name, which is initialized when the schema has at least one
\* operation; called without schema, it holds no proxy.
C18_CreateProxyApi ==
    [][\A schema \in InjectedSchemas \cup {Absent} :
          CreateProxyApi(schema, Undefined) =>
             /\ Len(proxyApis') = Len(proxyApis) + 1
             /\ SubSeq(proxyApis', 1, Len(proxyApis)) = proxyApis
             /\ LET created == proxyApis'[Len(proxyApis')].proxies
                IN IF schema.present
                   THEN /\ Len(created) = 1
                        /\ created[1].p.serviceName = schema.service.name
                        /\ Len(schema.operations) >= 1 => isInitialized(created[1].p)
                   ELSE created = <<>>]_vars

\* createProxyApi() then createProxyApi(schema of b): getApis() returns a
\* ProxyApi without proxy, then one whose only proxy is b, initialized
\* without any fetch
C18_Witness ==
    /\ calls = 0
    /\ Len(getApis) = 2
    /\ getApis[1].proxies = <<>>
    /\ Len(getApis[2].proxies) = 1
    /\ ProxyAt(2, 1).p.serviceName = SvcB
    /\ ProxyAt(2, 1).fetches = 0
    /\ isInitialized(ProxyAt(2, 1).p)

----------------------------------------------------------------------------
(* WebSocketProxy: strings and route matching *)

PathChars == {"/", ":", "a"}
Paths == SeqsUpTo(PathChars, MaxPath)

\* String.prototype.split(sep) for a one-character separator: the pieces
\* between the separators, empty ones included; "" gives [""]
RECURSIVE split(_, _)
split(s, sep) ==
    LET at == {i \in 1..Len(s) : s[i] = sep}
    IN IF at = {} THEN <<s>>
       ELSE LET k == CHOOSE i \in at : \A j \in at : i <= j
            IN <<SubSeq(s, 1, k - 1)>> \o split(SubSeq(s, k + 1, Len(s)), sep)

\* faulty variant: the empty pieces are kept
filterBoolean_keepAll(parts) == parts

\* Array.prototype.filter(Boolean) on strings: the empty string is falsy
filterBoolean(parts) == SelectSeq(parts, LAMBDA part : part # <<>>)

\* String.prototype.startsWith
startsWith(s, prefix) ==
    Len(s) >= Len(prefix) /\ SubSeq(s, 1, Len(prefix)) = prefix

\* Array.prototype.join(sep)
RECURSIVE join(_, _)
join(parts, sep) ==
    IF parts = <<>> THEN <<>>
    ELSE IF Len(parts) = 1 THEN parts[1]
    ELSE parts[1] \o sep \o join(Tail(parts), sep)

matchesPattern(url, pattern) ==
    LET urlParts == filterBoolean(split(url, "/"))
        patternParts == filterBoolean(split(pattern, "/"))
    IN IF Len(urlParts) # Len(patternParts) THEN FALSE
       ELSE \A i \in 1..Len(patternParts) :
               \/ startsWith(patternParts[i], <<":">>)
               \/ patternParts[i] = urlParts[i]

\* matchesPattern applied to every pair of short strings
MatchInit ==
    /\ ProxyAtRest
    /\ GatewayAtRest
    /\ routes = <<>>
    /\ conns = <<>>
    /\ \E url \in Paths, pattern \in Paths :
          match = [applied |-> FALSE, url |-> url, pattern |-> pattern]

MatchesPattern ==
    /\ ~match.applied
    /\ match' = [match EXCEPT !.applied = TRUE] @@
                [result |-> matchesPattern(match.url, match.pattern)]
    /\ UNCHANGED <<routes, conns, pvars, hvars, gwvars>>

MatchNext == MatchesPattern

SpecMatch == MatchInit /\ [][MatchNext]_vars

----------------------------------------------------------------------------
(* WebSocketProxy: routes and connections *)

Http == <<"http", ":", "/", "/", "h">>
Https == <<"http", "s", ":", "/", "/", "h">>

\* a schema with its websocket section: absent, or the declared paths in
\* the order of Object.entries
WsSchema(name, url, paths) ==
    [present |-> TRUE, service |-> [name |-> name, baseUrl |-> url],
     operations |-> <<>>,
     websocket |-> IF paths = <<>> THEN Absent
                   ELSE [present |-> TRUE, paths |-> paths]]

\* the schemas handed to registerSchema: without websocket section, with one
\* literal path, with one parameter path, with both, with an empty baseUrl
WsSchemas ==
    {WsSchema(<<"s">>, Http, <<>>),
     WsSchema(<<"s">>, Http, <<<<"/", "a">>>>),
     WsSchema(<<"s">>, Https, <<<<"/", ":">>>>),
     WsSchema(<<"s">>, Https, <<<<"/", "a">>, <<"/", ":">>>>),
     WsSchema(<<"s">>, <<>>, <<<<"/", "a">>>>)}
WsPrefixes == {Undefined, <<"t">>}

\* request.url of the upgrade requests
RequestUrls ==
    {Undefined, <<>>, <<"/", "s", "/", "a">>, <<"/", "s", "/", "a", "/">>,
     <<"/", "s", "/", "b">>, <<"/", "t", "/", "a">>, <<"/", "s">>}

\* Map.prototype.has / get / set on a map kept as the sequence of its
\* entries in insertion order
mapHas(m, key) == \E i \in 1..Len(m) : m[i].key = key
mapGet(m, key) == m[CHOOSE i \in 1..Len(m) : m[i].key = key].value
\* faulty variant: the value of a key already present is kept
mapSet_keepFirst(m, key, value) ==
    IF mapHas(m, key) THEN m
    ELSE Append(m, [key |-> key, value |-> value])

mapSet(m, key, value) ==
    IF mapHas(m, key)
    THEN [i \in 1..Len(m) |-> IF m[i].key = key THEN [key |-> key, value |-> value]
                              ELSE m[i]]
    ELSE Append(m, [key |-> key, value |-> value])

RECURSIVE setAll(_, _, _, _)
setAll(m, prefix, paths, baseUrl) ==
    IF paths = <<>> THEN m
    ELSE setAll(mapSet(m, <<"/">> \o prefix \o Head(paths), baseUrl),
                prefix, Tail(paths), baseUrl)

registerSchema(m, schema, routePrefix) ==
    IF ~schema.websocket.present THEN m
    ELSE LET prefix == IF Truthy(routePrefix) THEN routePrefix ELSE schema.service.name
         IN setAll(m, prefix, schema.websocket.paths, schema.service.baseUrl)

\* faulty variant: the patterns are tried before the exact key
findMatchingRoute_patternFirst(m, url) ==
    LET hits == {i \in 1..Len(m) : matchesPattern(url, m[i].key)}
    IN IF hits # {} THEN m[CHOOSE i \in hits : \A j \in hits : i <= j].value
       ELSE IF mapHas(m, url) THEN mapGet(m, url)
       ELSE Undefined

\* the backend URL of the route found, Undefined when none is
findMatchingRoute(m, url) ==
    IF mapHas(m, url) THEN mapGet(m, url)
    ELSE LET hits == {i \in 1..Len(m) : matchesPattern(url, m[i].key)}
         IN IF hits = {} THEN Undefined
            ELSE m[CHOOSE i \in hits : \A j \in hits : i <= j].value

\* backendUrl.replace(/^https?/, wsProtocol)
replaceScheme(backendUrl, wsProtocol) ==
    IF startsWith(backendUrl, <<"http", "s">>)
    THEN wsProtocol \o SubSeq(backendUrl, 3, Len(backendUrl))
    ELSE IF startsWith(backendUrl, <<"http">>)
    THEN wsProtocol \o SubSeq(backendUrl, 2, Len(backendUrl))
    ELSE backendUrl

buildBackendWsUrl(backendUrl, requestPath) ==
    LET wsProtocol == IF startsWith(backendUrl, <<"http", "s">>)
                      THEN <<"ws", "s">> ELSE <<"ws">>
        baseUrl == replaceScheme(backendUrl, wsProtocol)
        pathParts == filterBoolean(split(requestPath, "/"))
        shifted == IF Len(pathParts) > 0 THEN Tail(pathParts) ELSE pathParts
    IN baseUrl \o <<"/">> \o join(shifted, <<"/">>)

\* A socket of the ws library: its readyState, the frames sent on it and,
\* for the client socket, the arguments of the close() call made on it.
OpenSocket == [state |-> "open", code |-> 0, reason |-> "", sent |-> <<>>]
RouteNotFound ==
    [state |-> "closing", code |-> 1008, reason |-> "Route not found", sent |-> <<>>]

\* new WebSocket(wsUrl)
BackendSocket(wsUrl) ==
    [present |-> TRUE, state |-> "connecting", url |-> wsUrl, sent |-> <<>>]

\* faulty variant: the handler goes on after the close
handleConnection_noReturn(m, requestUrl) ==
    LET url == IF Truthy(requestUrl) THEN requestUrl ELSE <<"/">>
        backendUrl == findMatchingRoute(m, url)
    IN [url |-> requestUrl,
        client |-> IF ~Truthy(backendUrl) THEN RouteNotFound ELSE OpenSocket,
        backend |-> BackendSocket(buildBackendWsUrl(IF Truthy(backendUrl) THEN backendUrl
                                                    ELSE <<>>, url)),
        relay |-> TRUE,
        threw |-> FALSE,
        created |-> 1,
        frames |-> 0]

\* handleConnection(clientWs, request): what has become of the connection
\* when the handler returns.  relay tells whether the listeners that forward
\* messages, closes and errors were attached, created counts the backend
\* sockets made for the connection, frames the message events delivered on it.
handleConnection(m, requestUrl) ==
    LET url == IF Truthy(requestUrl) THEN requestUrl ELSE <<"/">>
        backendUrl == findMatchingRoute(m, url)
    IN IF ~Truthy(backendUrl)
       THEN [url |-> requestUrl,
             client |-> RouteNotFound,
             backend |-> Absent,
             relay |-> FALSE,
             threw |-> FALSE,
             created |-> 0,
             frames |-> 0]
       ELSE [url |-> requestUrl,
             client |-> OpenSocket,
             backend |-> BackendSocket(buildBackendWsUrl(backendUrl, url)),
             relay |-> TRUE,
             threw |-> FALSE,
             created |-> 1,
             frames |-> 0]

WsInit ==
    /\ ProxyAtRest
    /\ GatewayAtRest
    /\ WebSocketAtRest

RegisterSchema(schema, routePrefix) ==
    /\ Len(registerSchema(routes, schema, routePrefix)) <= MaxRoutes
    /\ routes' = registerSchema(routes, schema, routePrefix)
    /\ UNCHANGED <<conns, match, pvars, hvars, gwvars>>

HandleConnection(requestUrl) ==
    /\ Len(conns) < MaxConns
    /\ conns' = Append(conns, handleConnection(routes, requestUrl))
    /\ UNCHANGED <<routes, match, pvars, hvars, gwvars>>

WsNext ==
    \/ \E schema \in WsSchemas, routePrefix \in WsPrefixes :
          RegisterSchema(schema, routePrefix)
    \/ \E requestUrl \in RequestUrls : HandleConnection(requestUrl)

SpecWs == WsInit /\ [][WsNext]_vars

\* Requests under prefixes of one and of two segments, with and without a
\* query string: the schemas registered, the routePrefix arguments (not
\* given, one segment, two segments) and request.url of the upgrade requests
PrefixSchemas ==
    {WsSchema(<<"s">>, Http, <<>>),
     WsSchema(<<"s">>, Http, <<<<"/", "a">>>>),
     WsSchema(<<"s">>, Https, <<<<"/", ":">>>>)}
PrefixArguments == {Undefined, <<"t">>, <<"t", "/", "u">>}
PrefixUrls ==
    {<<"/", "s", "/", "a">>, <<"/", "s", "/", "a", "?", "t">>,
     <<"/", "t", "/", "a">>, <<"/", "t", "/", "u", "/", "a">>,
     <<"/", "t", "/", "u", "/", "b">>}

PrefixNext ==
    \/ \E schema \in PrefixSchemas, routePrefix \in PrefixArguments :
          RegisterSchema(schema, routePrefix)
    \/ \E requestUrl \in PrefixUrls : HandleConnection(requestUrl)

SpecPrefix == WsInit /\ [][PrefixNext]_vars

----------------------------------------------------------------------------
(* WebSocketProxy: the relay of one accepted connection *)

\* The listeners attached by handleConnection close over the two sockets of
\* their own connection only, so the relay is followed on one connection.
\* readyState of a socket: "connecting", "open", "closing" (close() was
\* called or an error was raised, the close event is still to come),
\* "aborting" (close() was called while connecting: the library raises an
\* error, then the close event) and "closed".

\* a message event: (data, isBinary)
Frames == {[data |-> "x", isBinary |-> FALSE], [data |-> "y", isBinary |-> TRUE]}

\* the reason of a close event is a Buffer
Buffer(text) == [buffer |-> text]
toString(buffer) == buffer.buffer

\* the close events the backend may deliver: (code, reason)
CloseEvents == {[code |-> 4000, reason |-> Buffer("bye")],
                [code |-> 1000, reason |-> Buffer("")]}

\* socket.send(data, { binary: isBinary })
wsSend(socket, data, options) ==
    [socket EXCEPT !.sent = Append(@, [data |-> data, binary |-> options.binary])]

\* socket.close() as far as readyState goes
wsCloseState(state) ==
    CASE state = "open" -> "closing"
      [] state = "connecting" -> "aborting"
      [] OTHER -> state

\* backendWs.close()
wsClose(socket) == [socket EXCEPT !.state = wsCloseState(@)]

\* clientWs.close(code, reason): takes effect on an open socket only
wsCloseWith(socket, code, reason) ==
    IF socket.state = "open"
    THEN [socket EXCEPT !.state = "closing", !.code = code, !.reason = reason]
    ELSE socket

\* backendWs.on('open', ...): logs
onBackendOpen(conn) == conn

\* faulty variant: every frame goes out as a text frame
onClientMessage_text(conn, data, isBinary) ==
    IF conn.backend.state = "open"
    THEN [conn EXCEPT !.backend = wsSend(@, data, [binary |-> FALSE])]
    ELSE conn

\* clientWs.on('message', ...)
onClientMessage(conn, data, isBinary) ==
    IF conn.backend.state = "open"
    THEN [conn EXCEPT !.backend = wsSend(@, data, [binary |-> isBinary])]
    ELSE conn

\* faulty variant: the frame is sent whatever the state of the client
onBackendMessage_always(conn, data, isBinary) ==
    [conn EXCEPT !.client = wsSend(@, data, [binary |-> isBinary])]

\* backendWs.on('message', ...)
onBackendMessage(conn, data, isBinary) ==
    IF conn.client.state = "open"
    THEN [conn EXCEPT !.client = wsSend(@, data, [binary |-> isBinary])]
    ELSE conn

\* clientWs.on('close', ...)
onClientClose(conn) ==
    IF conn.backend.state = "open"
    THEN [conn EXCEPT !.backend = wsClose(@)]
    ELSE conn

\* faulty variant: a closed backend is replaced by a new socket
onBackendClose_reconnect(conn, code, reason) ==
    IF conn.client.state = "open"
    THEN [conn EXCEPT !.backend = BackendSocket(@.url), !.created = @ + 1]
    ELSE conn

\* faulty variant: the backend's code is replaced by 1000
onBackendClose_normal(conn, code, reason) ==
    IF conn.client.state = "open"
    THEN [conn EXCEPT !.client = wsCloseWith(@, 1000, toString(reason))]
    ELSE conn

\* backendWs.on('close', ...)
onBackendClose(conn, code, reason) ==
    IF conn.client.state = "open"
    THEN [conn EXCEPT !.client = wsCloseWith(@, code, toString(reason))]
    ELSE conn

\* clientWs.on('error', ...)
onClientError(conn) == [conn EXCEPT !.backend = wsClose(@)]

\* faulty variant: the error is logged and nothing else
onBackendError_logOnly(conn) == conn

\* backendWs.on('error', ...)
onBackendError(conn) ==
    [conn EXCEPT !.client = wsCloseWith(@, 1011, "Backend error")]

Relayed(k) == k \in 1..Len(conns) /\ conns[k].relay

\* the backend socket is connected
BackendOpen(k) ==
    /\ Relayed(k)
    /\ conns[k].backend.state = "connecting"
    /\ conns' = [conns EXCEPT ![k] =
                    onBackendOpen([@ EXCEPT !.backend.state = "open"])]
    /\ UNCHANGED <<routes, match, pvars, hvars, gwvars>>

\* a frame arrives from the client
ClientMessage(k, frame) ==
    /\ Relayed(k)
    /\ conns[k].client.state \in {"open", "closing"}
    /\ conns[k].frames < MaxFrames
    /\ conns' = [conns EXCEPT ![k] =
                    onClientMessage([@ EXCEPT !.frames = @ + 1],
                                    frame.data, frame.isBinary)]
    /\ UNCHANGED <<routes, match, pvars, hvars, gwvars>>

\* a frame arrives from the backend
BackendMessage(k, frame) ==
    /\ Relayed(k)
    /\ conns[k].backend.state \in {"open", "closing"}
    /\ conns[k].frames < MaxFrames
    /\ conns' = [conns EXCEPT ![k] =
                    onBackendMessage([@ EXCEPT !.frames = @ + 1],
                                     frame.data, frame.isBinary)]
    /\ UNCHANGED <<routes, match, pvars, hvars, gwvars>>

\* the client socket is closed
ClientClose(k) ==
    /\ Relayed(k)
    /\ conns[k].client.state \in {"open", "closing"}
    /\ conns' = [conns EXCEPT ![k] =
                    onClientClose([@ EXCEPT !.client.state = "closed"])]
    /\ UNCHANGED <<routes, match, pvars, hvars, gwvars>>

\* the backend socket is closed, with the code and reason of its close event
BackendClose(k, event) ==
    /\ Relayed(k)
    /\ conns[k].backend.state \in {"open", "closing"}
    /\ conns' = [conns EXCEPT ![k] =
                    onBackendClose([@ EXCEPT !.backend.state = "closed"],
                                   event.code, event.reason)]
    /\ UNCHANGED <<routes, match, pvars, hvars, gwvars>>

\* the client socket raises an error; its close event follows
ClientError(k) ==
    /\ Relayed(k)
    /\ conns[k].client.state \in {"open", "closing"}
    /\ conns' = [conns EXCEPT ![k] =
                    onClientError([@ EXCEPT !.client.state = "closing"])]
    /\ UNCHANGED <<routes, match, pvars, hvars, gwvars>>

\* faulty variant: the client socket is a field of the proxy, so the error
\* of one backend closes the client of every connection
BackendError_shared(k) ==
    /\ Relayed(k)
    /\ conns[k].backend.state \in {"connecting", "aborting", "open", "closing"}
    /\ conns' = [j \in 1..Len(conns) |->
                    IF j = k
                    THEN onBackendError([conns[j] EXCEPT !.backend.state = "closing"])
                    ELSE onBackendError(conns[j])]
    /\ UNCHANGED <<routes, match, pvars, hvars, gwvars>>

\* the backend socket raises an error (it could not connect, it was closed
\* while connecting, it failed while open); its close event follows
BackendError(k) ==
    /\ Relayed(k)
    /\ conns[k].backend.state \in {"connecting", "aborting", "open", "closing"}
    /\ conns' = [conns EXCEPT ![k] =
                    onBackendError([@ EXCEPT !.backend.state = "closing"])]
    /\ UNCHANGED <<routes, match, pvars, hvars, gwvars>>

RelaySchema == WsSchema(<<"s">>, Http, <<<<"/", "a">>>>)
RelayUrls == {<<"/", "s", "/", "a">>, <<"/", "s", "/", "b">>}

RelayNext ==
    \/ RegisterSchema(RelaySchema, Undefined)
    \/ \E requestUrl \in RelayUrls : conns = <<>> /\ HandleConnection(requestUrl)
    \/ \E k \in 1..Len(conns) : BackendOpen(k)
    \/ \E k \in 1..Len(conns), frame \in Frames : ClientMessage(k, frame)
    \/ \E k \in 1..Len(conns), frame \in Frames : BackendMessage(k, frame)
    \/ \E k \in 1..Len(conns) : ClientClose(k)
    \/ \E k \in 1..Len(conns), event \in CloseEvents : BackendClose(k, event)
    \/ \E k \in 1..Len(conns) : ClientError(k)
    \/ \E k \in 1..Len(conns) : BackendError(k)

SpecRelay == WsInit /\ [][RelayNext]_vars

\* Two connections A and B accepted on the same proxy, their events
\* interleaved in every order.  The message events are counted over both
\* connections together.
RECURSIVE TotalFrames(_)
TotalFrames(cs) == IF cs = <<>> THEN 0 ELSE Head(cs).frames + TotalFrames(Tail(cs))

PairUrl == <<"/", "s", "/", "a">>

PairNext ==
    \/ routes = <<>> /\ RegisterSchema(RelaySchema, Undefined)
    \/ Len(conns) <= 1 /\ routes # <<>>
          /\ conns' = Append(conns, handleConnection(routes, PairUrl))
          /\ UNCHANGED <<routes, match, pvars, hvars, gwvars>>
    \/ \E k \in 1..Len(conns) : BackendOpen(k)
    \/ \E k \in 1..Len(conns), frame \in Frames :
          TotalFrames(conns) < MaxFrames /\ ClientMessage(k, frame)
    \/ \E k \in 1..Len(conns), frame \in Frames :
          TotalFrames(conns) < MaxFrames /\ BackendMessage(k, frame)
    \/ \E k \in 1..Len(conns) : ClientClose(k)
    \/ \E k \in 1..Len(conns), event \in CloseEvents : BackendClose(k, event)
    \/ \E k \in 1..Len(conns) : ClientError(k)
    \/ \E k \in 1..Len(conns) : BackendError(k)

SpecPair == WsInit /\ [][PairNext]_vars

----------------------------------------------------------------------------
(* Properties of WebSocketProxy *)

\* the segments of a path: its maximal runs of characters other than "/"
SegmentStarts(s) == {i \in 1..Len(s) : s[i] # "/" /\ (i = 1 \/ s[i - 1] = "/")}

SegmentFrom(s, i) ==
    LET ends == {j \in i..Len(s) : \A k \in i..j : s[k] # "/"}
    IN SubSeq(s, i, CHOOSE j \in ends : \A k \in ends : k <= j)

RECURSIVE SegmentsFrom(_, _)
SegmentsFrom(s, starts) ==
    IF starts = {} THEN <<>>
    ELSE LET i == CHOOSE x \in starts : \A y \in starts : x <= y
         IN <<SegmentFrom(s, i)>> \o SegmentsFrom(s, starts \ {i})

Segments(s) == SegmentsFrom(s, SegmentStarts(s))

SegmentwiseMatch(urlParts, patternParts) ==
    /\ Len(urlParts) = Len(patternParts)
    /\ \A i \in 1..Len(patternParts) :
          \/ (patternParts[i] # <<>> /\ patternParts[i][1] = ":")
          \/ patternParts[i] = urlParts[i]

\* C19 as stated: the path matches the pattern exactly when both, split on
\* "/", have the same number of segments and every pattern segment starts
\* with ":" or equals the path's segment at its position.
C19_MatchAsStated ==
    match.applied =>
        (match.result <=>
            SegmentwiseMatch(split(match.url, "/"), split(match.pattern, "/")))

\* C19: the path matches the pattern exactly when both, split on "/" with the
\* empty segments dropped (leading, trailing and doubled slashes count for
\* nothing), have the same number of segments and every pattern segment
\* starts with ":" or equals the path's segment at its position.
C19_MatchNonEmptySegments ==
    match.applied =>
        (match.result <=>
            SegmentwiseMatch(Segments(match.url), Segments(match.pattern)))

\* a path with a trailing slash matched against a pattern of two segments
\* with a parameter
C19_Witness ==
    /\ match.applied
    /\ match.pattern = <<"/", "a", "/", ":">>
    /\ match.url = <<"a", "/", "a", "/">>
    /\ match.result
\* the path handleConnection looks up: request.url, "/" when it is missing
RequestPath(requestUrl) ==
    IF requestUrl = Undefined \/ requestUrl = <<>> THEN <<"/">> ELSE requestUrl

\* no registered route is the path itself or matches it segment by segment
NoRouteMatches(path) ==
    \A i \in 1..Len(routes) :
        /\ routes[i].key # path
        /\ ~SegmentwiseMatch(Segments(path), Segments(routes[i].key))

\* C20: when the inbound path matches no registered route, handleConnection
\* closes the client socket with code 1008 and reason "Route not found",
\* opens no backend socket, attaches no relay and raises no exception; the
\* routes and the other connections are left as they are.
C20_NoRouteCloses1008 ==
    [][\A requestUrl \in RequestUrls :
          (HandleConnection(requestUrl) /\ NoRouteMatches(RequestPath(requestUrl))) =>
             LET conn == conns'[Len(conns')]
             IN /\ conn.client.state = "closing"
                /\ conn.client.code = 1008
                /\ conn.client.reason = "Route not found"
                /\ conn.backend = Absent
                /\ ~conn.relay
                /\ ~conn.threw
                /\ routes' = routes
                /\ SubSeq(conns', 1, Len(conns)) = conns]_vars

\* /s/a is registered with a backend, the connection asked for /s/b and was
\* closed with 1008
C20_Witness ==
    /\ \E i \in 1..Len(routes) :
          routes[i].key = <<"/", "s", "/", "a">> /\ routes[i].value = Http
    /\ \E k \in 1..Len(conns) :
          /\ conns[k].url = <<"/", "s", "/", "b">>
          /\ conns[k].client.code = 1008
          /\ conns[k].backend = Absent

BothOpen(k) ==
    /\ Relayed(k)
    /\ conns[k].client.state = "open"
    /\ conns[k].backend.state = "open"

AsSent(frame) == [data |-> frame.data, binary |-> frame.isBinary]

\* C21: while both sockets of a connection are open, a frame received from
\* the client is sent to the backend, and a frame received from the backend
\* is sent to the client: once, after the frames sent before, with the same
\* payload and the same binary/text flag, and nothing goes the other way; no
\* other event sends a frame.
C21_RelayVerbatim ==
    [][\A k \in 1..Len(conns) :
          /\ \A frame \in Frames :
                /\ (BothOpen(k) /\ ClientMessage(k, frame)) =>
                      /\ conns'[k].backend.sent =
                            Append(conns[k].backend.sent, AsSent(frame))
                      /\ conns'[k].client.sent = conns[k].client.sent
                /\ (BothOpen(k) /\ BackendMessage(k, frame)) =>
                      /\ conns'[k].client.sent =
                            Append(conns[k].client.sent, AsSent(frame))
                      /\ conns'[k].backend.sent = conns[k].backend.sent
          /\ (Relayed(k) /\ conns'[k].backend.sent # conns[k].backend.sent) =>
                \E frame \in Frames : ClientMessage(k, frame)
          /\ (Relayed(k) /\ conns'[k].client.sent # conns[k].client.sent) =>
                \E frame \in Frames : BackendMessage(k, frame)]_vars

\* the client sent the text frame x, then the binary frame y: the backend got
\* both, in that order, and both sockets are still open
C21_Witness ==
    /\ BothOpen(1)
    /\ conns[1].frames = 2
    /\ conns[1].backend.sent = <<[data |-> "x", binary |-> FALSE],
                                 [data |-> "y", binary |-> TRUE]>>
C23_BackendError1011 ==
    [][\A k \in 1..Len(conns) :
          /\ (BackendError(k) /\ conns[k].client.state = "open") =>
                /\ conns'[k].client.state = "closing"
                /\ conns'[k].client.code = 1011
                /\ conns'[k].client.reason = "Backend error"
          /\ (Relayed(k) /\ conns[k].client.code = 1011) =>
                /\ conns'[k].client.code = 1011
                /\ conns'[k].client.reason = "Backend error"
                /\ conns'[k].client.state \in {"closing", "closed"}]_vars

\* the backend raised an error and then closed: the client keeps 1011
C23_Witness ==
    /\ Relayed(1)
    /\ conns[1].backend.state = "closed"
    /\ conns[1].client.state = "closing"
    /\ conns[1].client.code = 1011
    /\ conns[1].client.reason = "Backend error"
\* C24: a close or error of the client closes the backend: once the client
\* socket of an accepted connection is closed, its backend socket has been
\* closed too or is on its way to (close() was called on it), whatever state
\* it was in, still connecting included; none stays connecting or open.
C24_BackendClosedWithClient ==
    \A k \in 1..Len(conns) :
        (Relayed(k) /\ conns[k].client.state = "closed") =>
            conns[k].backend.state \in {"closing", "aborting", "closed"}
\* C25: one backend socket is created for an accepted connection, none for a
\* refused one, and that number never changes afterwards: whatever closes or
\* fails, the relay keeps the socket it was given, at the URL it was opened
\* with, and never goes back to connecting.
C25_OneBackendSocket ==
    [][\A k \in 1..Len(conns) :
          /\ conns[k].created = (IF conns[k].relay THEN 1 ELSE 0)
          /\ conns'[k].created = conns[k].created
          /\ conns[k].relay =>
                /\ conns'[k].backend.url = conns[k].backend.url
                /\ conns[k].backend.state # "connecting" =>
                      conns'[k].backend.state # "connecting"]_vars

\* both sockets of the connection are closed; one backend socket was made
C25_Witness ==
    /\ Relayed(1)
    /\ conns[1].client.state = "closed"
    /\ conns[1].backend.state = "closed"
    /\ conns[1].created = 1

\* the route a lookup of path is to find: the position of the entry whose
\* key is the path itself, otherwise the first position, in insertion order,
\* whose key matches the path segment by segment; 0 when there is none
RouteFor(path) ==
    LET exact == {i \in 1..Len(routes) : routes[i].key = path}
        hits == {i \in 1..Len(routes) :
                    SegmentwiseMatch(Segments(path), Segments(routes[i].key))}
    IN IF exact # {} THEN CHOOSE i \in exact : TRUE
       ELSE IF hits # {} THEN CHOOSE i \in hits : \A j \in hits : i <= j
       ELSE 0

\* C27: the lookup made by handleConnection returns the backend of the route
\* whose key is the request path itself when there is one, even if a pattern
\* registered earlier matches too; otherwise the backend of the first
\* matching pattern in insertion order.  Registering a key again keeps its
\* position in that order: the keys already present stay where they are and
\* the new ones follow them.
C27_ExactThenInsertionOrder ==
    [][/\ \A requestUrl \in RequestUrls :
             (HandleConnection(requestUrl) /\ RouteFor(RequestPath(requestUrl)) # 0) =>
                LET found == routes[RouteFor(RequestPath(requestUrl))].value
                    conn == conns'[Len(conns')]
                IN IF Truthy(found)
                   THEN /\ conn.backend.present
                        /\ conn.backend.url =
                              buildBackendWsUrl(found, RequestPath(requestUrl))
                   ELSE conn.backend = Absent
       /\ \A schema \in WsSchemas, routePrefix \in WsPrefixes :
             RegisterSchema(schema, routePrefix) =>
                /\ Len(routes') >= Len(routes)
                /\ \A i \in 1..Len(routes) : routes'[i].key = routes[i].key
                /\ \A i, j \in 1..Len(routes') : routes'[i].key = routes'[j].key => i = j]_vars

\* the pattern /s/: was registered before the literal /s/a, on another
\* backend; a connection to /s/a went to the backend of /s/a
C27_Witness ==
    /\ Len(routes) = 2
    /\ routes[1] = [key |-> <<"/", "s", "/", ":">>, value |-> Https]
    /\ routes[2] = [key |-> <<"/", "s", "/", "a">>, value |-> Http]
    /\ \E k \in 1..Len(conns) :
          /\ conns[k].url = <<"/", "s", "/", "a">>
          /\ conns[k].backend.present
          /\ conns[k].backend.url = <<"ws", ":", "/", "/", "h", "/", "a">>

\* the path of a request URL: what precedes the query string
pathname(url) ==
    LET at == {i \in 1..Len(url) : url[i] = "?"}
    IN IF at = {} THEN url
       ELSE SubSeq(url, 1, (CHOOSE i \in at : \A j \in at : i <= j) - 1)

hasQuery(requestUrl) == Truthy(requestUrl) /\ pathname(requestUrl) # requestUrl

\* C28: handleConnection matches the routes on the path of the upgrade
\* request: a connection whose URL carries a query string is accepted or
\* refused as the same URL without the query string is, and when accepted it
\* goes to the same backend.
C28_QueryStringIgnored ==
    [][\A requestUrl \in PrefixUrls :
          (HandleConnection(requestUrl) /\ hasQuery(requestUrl)) =>
             LET conn == conns'[Len(conns')]
                 plain == handleConnection(routes, pathname(requestUrl))
             IN /\ conn.client = plain.client
                /\ conn.backend.present = plain.backend.present
                /\ conn.backend.present =>
                      startsWith(conn.backend.url, plain.backend.url)]_vars

\* the full paths a registerSchema call registers
FullPaths(schema, routePrefix) ==
    IF ~schema.websocket.present THEN {}
    ELSE LET prefix == IF routePrefix = Undefined \/ routePrefix = <<>>
                       THEN schema.service.name ELSE routePrefix
         IN {<<"/">> \o prefix \o schema.websocket.paths[i] :
                i \in 1..Len(schema.websocket.paths)}

\* the entries of a route table as a set of (key, value) pairs
Entries(m) == {m[i] : i \in 1..Len(m)}

\* C29: registerSchema maps each full path "/" + prefix + path of the schema
\* (prefix = routePrefix or schema.service.name) to the schema's baseUrl,
\* replacing the backend a path had before; the entries under other paths
\* stay as they are and none is removed; each path has one entry.  A schema
\* without websocket endpoints leaves the table unchanged.  Hence after any
\* sequence of calls each path ever registered is mapped to the baseUrl of
\* the most recent schema registered under it.
C29_LastWriteWins ==
    [][\A schema \in WsSchemas, routePrefix \in WsPrefixes :
          /\ ~schema.websocket.present =>
                registerSchema(routes, schema, routePrefix) = routes
          /\ RegisterSchema(schema, routePrefix) =>
             LET registered == FullPaths(schema, routePrefix)
             IN /\ \A key \in registered :
                      [key |-> key, value |-> schema.service.baseUrl] \in Entries(routes')
                /\ \A entry \in Entries(routes) :
                      entry.key \notin registered => entry \in Entries(routes')
                /\ \A entry \in Entries(routes') :
                      entry.key \notin registered => entry \in Entries(routes)
                /\ \A i, j \in 1..Len(routes') :
                      routes'[i].key = routes'[j].key => i = j]_vars

\* /s/a was on http://h when a connection was made to it; registered again
\* by a schema on https://h, it is now mapped to https://h
C29_Witness ==
    /\ routes = <<[key |-> <<"/", "s", "/", "a">>, value |-> Https],
                  [key |-> <<"/", "s", "/", ":">>, value |-> Https]>>
    /\ \E k \in 1..Len(conns) :
          /\ conns[k].url = <<"/", "s", "/", "a">>
          /\ conns[k].backend.present
          /\ conns[k].backend.url = <<"ws", ":", "/", "/", "h", "/", "a">>

\* the WebSocket URL of a backend base URL: http becomes ws, https wss
WsBase(baseUrl) ==
    IF baseUrl = Https THEN <<"ws", "s", ":", "/", "/", "h">>
    ELSE <<"ws", ":", "/", "/", "h">>

\* the segments of a path after those of the prefix
AfterPrefix(path, prefix) ==
    SubSeq(Segments(path), Len(Segments(prefix)) + 1, Len(Segments(path)))

\* C30: a request that matches a route registered with prefix P for a
\* backend with base URL B is connected to B, with http replaced by ws and
\* https by wss, followed by the inbound path without the segments of "/P",
\* whatever the number of segments of P.
C30_PrefixRemoved ==
    [][\A requestUrl \in PrefixUrls, schema \in PrefixSchemas,
          routePrefix \in PrefixArguments :
          LET path == RequestPath(requestUrl)
              prefix == IF routePrefix = Undefined THEN schema.service.name
                        ELSE routePrefix
          IN (/\ HandleConnection(requestUrl)
              /\ RouteFor(path) # 0
              /\ routes[RouteFor(path)].key \in FullPaths(schema, routePrefix)
              /\ routes[RouteFor(path)].value = schema.service.baseUrl
              /\ schema.service.baseUrl # <<>>) =>
                LET conn == conns'[Len(conns')]
                IN /\ conn.backend.present
                   /\ conn.backend.url =
                         WsBase(schema.service.baseUrl) \o <<"/">>
                            \o join(AfterPrefix(path, prefix), <<"/">>)]_vars

\* C32: nothing is buffered.  The frames sent to the backend grow only by
\* the frame the client delivers while the backend socket is open, and the
\* frames sent to the client only by the frame the backend delivers while
\* the client socket is open: a frame that arrives while the other socket is
\* connecting, closing or closed is sent neither then nor by any later step,
\* the opening of the backend included.
C32_NoBuffering ==
    [][\A k \in 1..Len(conns) :
          (Relayed(k) /\ Len(conns') = Len(conns)) =>
             /\ conns'[k].backend.sent # conns[k].backend.sent =>
                   \E frame \in Frames :
                      /\ ClientMessage(k, frame)
                      /\ conns[k].backend.state = "open"
                      /\ conns'[k].backend.sent =
                            Append(conns[k].backend.sent, AsSent(frame))
             /\ conns'[k].client.sent # conns[k].client.sent =>
                   \E frame \in Frames :
                      /\ BackendMessage(k, frame)
                      /\ conns[k].client.state = "open"
                      /\ conns'[k].client.sent =
                            Append(conns[k].client.sent, AsSent(frame))
             /\ \A frame \in Frames :
                   /\ (ClientMessage(k, frame) /\ conns[k].backend.state # "open") =>
                         conns'[k].backend.sent = conns[k].backend.sent
                   /\ (BackendMessage(k, frame) /\ conns[k].client.state # "open") =>
                         conns'[k].client.sent = conns[k].client.sent]_vars

\* a frame came from the client while the backend was connecting; the
\* backend is open now and nothing was sent to it
C32_Witness ==
    \E k \in 1..Len(conns) :
       /\ Relayed(k)
       /\ conns[k].frames = 1
       /\ conns[k].client.state = "open"
       /\ conns[k].client.sent = <<>>
       /\ conns[k].backend.state = "open"
       /\ conns[k].backend.sent = <<>>

\* an event of connection k: a step of one of its listeners
EventOf(k) ==
    \/ BackendOpen(k)
    \/ \E frame \in Frames : ClientMessage(k, frame) \/ BackendMessage(k, frame)
    \/ ClientClose(k)
    \/ \E event \in CloseEvents : BackendClose(k, event)
    \/ ClientError(k)
    \/ BackendError(k)

\* C31: connections are isolated.  An event of one connection (a frame, a
\* close or an error on one of its sockets) leaves every other connection
\* as it is: nothing is sent on its sockets and none of them is closed.
\* Accepting a connection leaves the route table and the connections made
\* before as they are, and no event changes the route table.
C31_ConnectionsIsolated ==
    [][/\ \A k \in 1..Len(conns) :
             EventOf(k) =>
                /\ Len(conns') = Len(conns)
                /\ \A j \in 1..Len(conns) : j # k => conns'[j] = conns[j]
                /\ routes' = routes
       /\ Len(conns') > Len(conns) =>
             /\ routes' = routes
             /\ SubSeq(conns', 1, Len(conns)) = conns
       /\ routes' # routes => conns' = conns]_vars

\* A relayed a frame of its client and was closed by its backend with 4000;
\* B, accepted on the same route, has both sockets open and has seen nothing
C31_Witness ==
    /\ Len(conns) = 2
    /\ conns[1].backend.sent = <<[data |-> "x", binary |-> FALSE]>>
    /\ conns[1].backend.state = "closed"
    /\ conns[1].client.code = 4000
    /\ conns[2].relay
    /\ conns[2].client = OpenSocket
    /\ conns[2].backend.state = "open"
    /\ conns[2].backend.sent = <<>>

\* C33: synthesis replaces the whole list and reads the override table as it
\* is at that moment.  When the fetch of initialize() resolves on a Proxy
\* that already has methods, the new list is exactly the Methods of the
\* operations of the fetched schema, one per operation and in their order,
\* none left over from the list before; the handler of an operation whose id
\* is in the override table, registered after the first synthesis or before
\* it, is the registered handler.
C33_ResynthesisReplaces ==
    [][(/\ pc = "fetching" /\ ret'.op = "initialize" /\ ret'.status = "ok"
        /\ proxy.methods # <<>>) =>
          LET schema == proxy'.schema
          IN /\ FetchResolved(schema)
             /\ Len(proxy'.methods) = Len(schema.operations)
             /\ \A i \in 1..Len(schema.operations) :
                   LET operation == schema.operations[i]
                       method == proxy'.methods[i]
                   IN /\ method.name = buildRouteName(proxy, operation)
                      /\ method.type = IF operation.operationType = "mutation"
                                       THEN "CREATE" ELSE "GET"
                      /\ method.handler =
                            IF operation.id \in DOMAIN proxy.customHandlers
                            THEN [kind |-> "custom",
                                  h |-> proxy.customHandlers[operation.id]]
                            ELSE [kind |-> "default", operation |-> operation]]_vars

\* initialize() went through on a proxy whose list held two methods: it now
\* holds the one method of the fetched schema, with the handler registered
\* by override
C33_Witness ==
    /\ ret.op = "initialize" /\ ret.status = "ok"
    /\ ret.held = 2
    /\ Len(proxy.methods) = 1
    /\ proxy.schema.operations[1].id = IdC
    /\ proxy.methods[1].handler = [kind |-> "custom", h |-> "H1"]

\* C34: the strategy is configured and started only by a run() whose
\* initialization went through: in the step that changes the strategy the
\* gateway call is a fulfilled run(), every ProxyApi it initialized has
\* initialized successfully, and configure and onApiRun are called once.
\* When a ProxyApi fails while run() awaits, run() rejects with that
\* failure and the strategy stays as it was.
C34_RunFailureLeavesStrategy ==
    [][/\ strategy' # strategy =>
             /\ gcall'.kind = "run"
             /\ gcall'.state = "resolved"
             /\ \A a \in 1..Len(proxyApis') :
                   proxyApis'[a].call.owner = "gateway" =>
                      proxyApis'[a].call.state = "resolved"
             /\ strategy' = runConfigure(strategy, proxyApis')
       /\ (gcall.state = "pending" /\ gcall'.state = "rejected") =>
             /\ gcall'.kind = gcall.kind
             /\ gcall'.error # NoError
             /\ \E a \in 1..Len(proxyApis') :
                   /\ proxyApis'[a].call.state = "rejected"
                   /\ gcall'.error = proxyApis'[a].call.error
             /\ strategy' = strategy
       /\ (gcall.state = "rejected" /\ gcall' = gcall) => strategy' = strategy]_vars

\* run() was rejected by the failure of the second ProxyApi after the first
\* had initialized; every fetch is settled and the strategy was never touched
C34_Witness ==
    /\ gcall.kind = "run"
    /\ gcall.state = "rejected"
    /\ Len(proxyApis) = 2
    /\ proxyApis[1].call.state = "resolved"
    /\ proxyApis[2].call.state = "rejected"
    /\ \A a \in 1..Len(proxyApis) : Quiet(a)
    /\ strategy = [configured |-> <<>>, runs |-> 0]

\* C35: each Method is registered with its ProxyApi exactly once, however
\* often initialize() is repeated.  On a ProxyApi from which no proxy was
\* ever removed (removeProxy is the only call that answers through gret),
\* once initialize() has gone through the registerMethod calls received are
\* exactly the Methods of the proxies held, each once.
C35_RegisteredOnce ==
    \A a \in 1..Len(proxyApis) :
       (/\ gret.op = "new"
        /\ proxyApis[a].call.state = "resolved"
        /\ Quiet(a)) =>
          proxyApis[a].registered =
             Flatten([i \in 1..Len(proxyApis[a].proxies) |->
                         getMethods(proxyApis[a].proxies[i].p)])

\* C36: when the schema fetch of initialize() fails, initialize() rejects
\* with the error of the fetch, and the stored schema and the method list
\* are what they were when initialize() was called: neither the wait for the
\* answer nor the rejection changes them, so isInitialized() answers as
\* before.
C36_FailedFetchLeavesProxy ==
    [][/\ \A message \in TransportMessages :
             FetchRejected(message) =>
                /\ ret'.op = "initialize"
                /\ ret'.status = "throw"
                /\ ret'.error = AxiosError(message)
                /\ proxy'.schema = proxy.schema
                /\ proxy'.methods = proxy.methods
                /\ isInitialized(proxy') = isInitialized(proxy)
       /\ (pc = "fetching" /\ pc' = "fetching") =>
             /\ proxy'.schema = proxy.schema
             /\ proxy'.methods = proxy.methods]_vars

\* initialize() was rejected on a proxy that had a schema and two methods:
\* it still has them
C36_Witness ==
    /\ ret.op = "initialize" /\ ret.status = "throw"
    /\ ret.error.axios
    /\ proxy.schema.present
    /\ Len(proxy.methods) = 2
    /\ isInitialized(proxy)

====
